---- MODULE Spec2Model ----
(***************************************************************************)
(* Dify-Assistant: the SSE stream parser (streaming/sse_parser.py) and the *)
(* bounded-concurrency batch operations of the async console client        *)
(* (cli/async_console_client.py, cli/plugin_cmd.py).                       *)
(*                                                                         *)
(* Text is modelled as a sequence of tokens, so that strip, partition,     *)
(* join and JSON decoding are computed and not assumed.                    *)
(***************************************************************************)
EXTENDS Integers, Sequences, FiniteSets, TLC

VARIABLES
    \* ---- SSEParser instance (sse_parser.py:93-94)
    last_event_id,        \* self._last_event_id
    reconnect_attempts,   \* self._reconnect_attempts
    \* ---- one parse_sync / parse_async invocation (generator frame)
    pc,                   \* position of the generator
    mode,                 \* "sync" | "async"
    event_type,           \* local event_type
    event_id,             \* local event_id
    data_lines,           \* local data_lines
    raised,               \* exception that left the generator, or NoExc
    \* ---- the response being read and what the consumer has seen
    frame,                \* lines the response still holds when it is scripted
    lines,                \* raw lines handed out by iter_lines so far
    emitted,              \* events yielded so far by this invocation
    data_at,              \* positions in lines of the entries of data_lines
    fails,                \* read failures since the last yielded event
    parses,               \* parse invocations started on this instance
    event_timeout,        \* self.event_timeout
    overdue,              \* the wait for the next line has passed event_timeout
    \* ---- AsyncConsoleClient and one batch call on it
    max_concurrency,      \* self.max_concurrency
    access_token,         \* self._access_token
    csrf_token,           \* self._csrf_token
    client,               \* self._client (None or "open")
    semaphore,            \* self._semaphore (None or [value, waiters])
    batch,                \* the running batch call: kind, items, phase
    task,                 \* per-item coroutine state
    results,              \* list returned by the batch call
    \* ---- what the caller of the console client has seen
    holder,               \* "never" | "authenticated" | "closed"
    last_login,           \* how the latest login() call ended
    ended,                \* the order in which the coroutines ended, if logged
    \* ---- one request of the API client (client/base.py, async_client.py)
    status_code,          \* response.status_code, 0 before the response
    error_text,           \* the body of an error response
    response_data,        \* the argument response_data of handle_error_response
    api_error,            \* what handle_error_response raised
    \* ---- ConfigLoader class state and the threads constructing loaders
    instances,            \* ConfigLoader._instances
    loader_lock,          \* ConfigLoader._lock: the thread holding it, or 0
    created,              \* loader objects allocated so far
    resets,               \* reset() calls so far
    caller,               \* per thread: position in __new__ and its locals
    obtained,             \* every loader a construction has returned
    \* ---- one client object shared by concurrent callers
    klass,                \* the class of the client
    cc_access_token,      \* self._access_token: 0, or the login that set it
    cc_csrf_token,        \* self._csrf_token: 0, or the login that set it
    cc_client,            \* self._client: 0, or the handle it refers to
    cc_closed,            \* handles whose is_closed is True
    cc_headers,           \* per handle: the login of its Authorization header
    cc_lock,              \* self._lock: the caller holding it, or 0
    cc_slots,             \* free slots of self._semaphore
    cc_op,                \* per caller: the running call and its locals
    cc_running,           \* the task the event loop is running, or 0
    cc_sent,              \* every request handed to a transport handle
    cc_calls,             \* calls started so far
    cc_logins,            \* login responses received so far
    \* ---- the pre-fetch of _upgrade_plugins_parallel
    fetch,                \* "none" | "running" | "gathered"
    lookups,              \* per plugin: the coroutine get_latest_id
    \* ---- a second parse running on the same SSEParser instance
    cur,                  \* the stream whose generator is running: 1 or 2
    other                 \* the frame of the suspended generator

parserVars == <<last_event_id, reconnect_attempts, pc, mode, event_type,
                event_id, data_lines, raised, frame, lines, emitted,
                data_at, fails, parses, event_timeout, overdue>>
batchVars == <<max_concurrency, access_token, csrf_token, client, semaphore, batch,
               task, results, holder, last_login, ended>>
apiVars == <<status_code, error_text, response_data, api_error>>
loaderVars == <<instances, loader_lock, created, resets, caller, obtained>>
clientVars == <<klass, cc_access_token, cc_csrf_token, cc_client, cc_closed,
                cc_headers, cc_lock, cc_slots, cc_op, cc_running, cc_sent,
                cc_calls, cc_logins>>
fetchVars == <<fetch, lookups>>
streamVars == <<cur, other>>
concVars == <<loaderVars, clientVars, fetchVars, streamVars>>
vars == <<parserVars, batchVars, apiVars, concVars>>

None == "None"

\* ---------------------------------------------------------------- bounds
MaxLines == 4        \* lines one free-running response hands out
MaxParses == 2       \* parse invocations on one parser instance
MaxDataLines == 2    \* data: lines one scripted frame is split into
MaxItems == 3        \* items of one batch call
MaxThreads == 3      \* threads constructing loaders
MaxCallers == 3      \* tasks or threads sharing one client
MaxCalls == 4        \* calls made on the shared client
MaxLoaders == 4
MaxResets == 2
MaxConcurrency == 2  \* largest max_concurrency tried

\* ================================================================ text
Tok(t, v) == [t |-> t, v |-> v]
Space == Tok("sp", "")
Colon == Tok("colon", "")
NL == Tok("nl", "")
LB == Tok("lbrace", "")
RB == Tok("rbrace", "")
Junk == Tok("junk", "")
Num == Tok("num", "")
W(w) == Tok("word", w)
NoneText == <<Tok("none", "")>>   \* the value None of an Optional[str]
EvM(k) == Tok("ev", k)        \* the member "event": k of a JSON object
FM(b) == Tok("fields", b)     \* a bundle of further members of a JSON object

RECURSIVE LStrip(_)
LStrip(s) == IF s # <<>> /\ Head(s) \in {Space, NL} THEN LStrip(Tail(s)) ELSE s

RECURSIVE RStrip(_)
RStrip(s) ==
    IF s # <<>> /\ s[Len(s)] \in {Space, NL}
    THEN RStrip(SubSeq(s, 1, Len(s) - 1)) ELSE s

\* str.strip()
Strip(s) == RStrip(LStrip(s))

\* index of the first colon of s, 0 when there is none
FirstColon(s) ==
    IF \E i \in 1..Len(s) : s[i] = Colon
    THEN CHOOSE i \in 1..Len(s) :
            s[i] = Colon /\ \A j \in 1..(i - 1) : s[j] # Colon
    ELSE 0

\* str.join of a list of strings
RECURSIVE Join(_, _)
Join(parts, sep) ==
    IF parts = <<>> THEN <<>>
    ELSE IF Len(parts) = 1 THEN parts[1]
    ELSE parts[1] \o <<sep>> \o Join(Tail(parts), sep)

\* ================================================= streaming/events.py
\* the sixteen members of StreamEventType
KnownKinds ==
    {"message", "message_end", "message_file", "message_replace",
     "agent_message", "agent_thought", "tts_message", "tts_message_end",
     "workflow_started", "workflow_finished", "node_started",
     "node_finished", "parallel_branch_started", "parallel_branch_finished",
     "error", "ping"}

\* the table with one entry pointing at a neighbouring class
EVENT_MODELS_Swapped ==
    [k \in KnownKinds |->
        CASE k = "message" -> "MessageEvent"
          [] k = "message_end" -> "MessageEndEvent"
          [] k = "message_file" -> "MessageFileEvent"
          [] k = "message_replace" -> "MessageEvent"
          [] k = "agent_message" -> "AgentMessageEvent"
          [] k = "agent_thought" -> "AgentThoughtEvent"
          [] k = "tts_message" -> "TtsMessageEvent"
          [] k = "tts_message_end" -> "TtsMessageEndEvent"
          [] k = "workflow_started" -> "WorkflowStartedEvent"
          [] k = "workflow_finished" -> "WorkflowFinishedEvent"
          [] k = "node_started" -> "NodeStartedEvent"
          [] k = "node_finished" -> "NodeFinishedEvent"
          [] k = "parallel_branch_started" -> "ParallelBranchStartedEvent"
          [] k = "parallel_branch_finished" -> "ParallelBranchFinishedEvent"
          [] k = "error" -> "ErrorEvent"
          [] k = "ping" -> "PingEvent"]

\* SSEParser.EVENT_MODELS: event type string -> model class
EVENT_MODELS ==
    [k \in KnownKinds |->
        CASE k = "message" -> "MessageEvent"
          [] k = "message_end" -> "MessageEndEvent"
          [] k = "message_file" -> "MessageFileEvent"
          [] k = "message_replace" -> "MessageReplaceEvent"
          [] k = "agent_message" -> "AgentMessageEvent"
          [] k = "agent_thought" -> "AgentThoughtEvent"
          [] k = "tts_message" -> "TtsMessageEvent"
          [] k = "tts_message_end" -> "TtsMessageEndEvent"
          [] k = "workflow_started" -> "WorkflowStartedEvent"
          [] k = "workflow_finished" -> "WorkflowFinishedEvent"
          [] k = "node_started" -> "NodeStartedEvent"
          [] k = "node_finished" -> "NodeFinishedEvent"
          [] k = "parallel_branch_started" -> "ParallelBranchStartedEvent"
          [] k = "parallel_branch_finished" -> "ParallelBranchFinishedEvent"
          [] k = "error" -> "ErrorEvent"
          [] k = "ping" -> "PingEvent"]

Classes == {EVENT_MODELS[k] : k \in KnownKinds}

\* the default of the field `event` declared by each model class
DefaultEvent(cls) ==
    CASE cls = "MessageEvent" -> "message"
      [] cls = "MessageEndEvent" -> "message_end"
      [] cls = "MessageFileEvent" -> "message_file"
      [] cls = "MessageReplaceEvent" -> "message_replace"
      [] cls = "AgentMessageEvent" -> "agent_message"
      [] cls = "AgentThoughtEvent" -> "agent_thought"
      [] cls = "TtsMessageEvent" -> "tts_message"
      [] cls = "TtsMessageEndEvent" -> "tts_message_end"
      [] cls = "WorkflowStartedEvent" -> "workflow_started"
      [] cls = "WorkflowFinishedEvent" -> "workflow_finished"
      [] cls = "NodeStartedEvent" -> "node_started"
      [] cls = "NodeFinishedEvent" -> "node_finished"
      [] cls = "ParallelBranchStartedEvent" -> "parallel_branch_started"
      [] cls = "ParallelBranchFinishedEvent" -> "parallel_branch_finished"
      [] cls = "ErrorEvent" -> "error"
      [] cls = "PingEvent" -> "ping"

\* the fields each model class declares without a default
RequiredFields(cls) ==
    CASE cls \in {"MessageEvent", "MessageReplaceEvent", "AgentMessageEvent"}
            -> {"task_id", "message_id", "answer", "created_at"}
      [] cls = "MessageEndEvent" -> {"task_id", "message_id"}
      [] cls = "MessageFileEvent" -> {"id", "type", "belongs_to", "url"}
      [] cls = "AgentThoughtEvent"
            -> {"id", "task_id", "message_id", "position", "thought",
                "created_at"}
      [] cls = "TtsMessageEvent"
            -> {"task_id", "message_id", "audio", "created_at"}
      [] cls = "TtsMessageEndEvent" -> {"task_id", "message_id", "created_at"}
      [] cls \in {"WorkflowStartedEvent", "WorkflowFinishedEvent",
                  "NodeStartedEvent", "NodeFinishedEvent",
                  "ParallelBranchStartedEvent", "ParallelBranchFinishedEvent"}
            -> {"task_id", "workflow_run_id"}
      [] OTHER -> {}

\* ------------------------------------------------------- JSON payloads
\* the members a bundle token stands for (values of the declared types)
Bundles == {"chat", "end", "file", "thought", "tts", "workflow"}

FieldsOf(b) ==
    CASE b = "chat" -> {"task_id", "message_id", "conversation_id",
                        "answer", "created_at"}
      [] b = "end" -> {"task_id", "message_id", "metadata"}
      [] b = "file" -> {"id", "type", "belongs_to", "url"}
      [] b = "thought" -> {"id", "task_id", "message_id", "position",
                           "thought", "created_at"}
      [] b = "tts" -> {"task_id", "message_id", "audio", "created_at"}
      [] b = "workflow" -> {"task_id", "workflow_run_id", "data"}
      [] OTHER -> {}

\* values of the member "event" that are not a known kind:
\* a string naming no kind, and a list (not hashable, not a valid enum value)
UnknownKind == "future_kind"
ListValue == "<list>"
Absent == "<absent>"

JsonError == [type |-> "error", event |-> Absent, fields |-> {}]
EmptyObject == [type |-> "object", event |-> Absent, fields |-> {}]

IsMember(tok) == tok.t \in {"ev", "fields"}

\* the value of the last member "event" of the members ms, Absent if none
RECURSIVE LastEvent(_)
LastEvent(ms) ==
    IF ms = <<>> THEN Absent
    ELSE IF ms[Len(ms)].t = "ev" THEN ms[Len(ms)].v
    ELSE LastEvent(SubSeq(ms, 1, Len(ms) - 1))

\* json.loads: white space between tokens is skipped; a document is a
\* number or an object `{` members `}`; anything else is a JSONDecodeError
JsonLoads(text) ==
    LET t == SelectSeq(text, LAMBDA x : x \notin {Space, NL})
        ms == SubSeq(t, 2, Len(t) - 1)
    IN  IF t = <<Num>>
        THEN [type |-> "number", event |-> Absent, fields |-> {}]
        ELSE IF /\ Len(t) >= 2
                /\ t[1] = LB
                /\ t[Len(t)] = RB
                /\ \A i \in 1..Len(ms) : IsMember(ms[i])
        THEN [type |-> "object",
              event |-> LastEvent(ms),
              fields |-> UNION {FieldsOf(ms[i].v) :
                                  i \in {j \in 1..Len(ms) : ms[j].t = "fields"}}]
        ELSE JsonError

\* model_class.model_validate(event_data): the value must be a mapping, the
\* required fields present, and `event`, when given, a StreamEventType value
Validates(cls, doc) ==
    /\ doc.type = "object"
    /\ RequiredFields(cls) \subseteq doc.fields
    /\ doc.event \in KnownKinds \cup {Absent}

Event(cls, doc) ==
    [ok |-> TRUE, cls |-> cls,
     event |-> IF doc.event = Absent THEN DefaultEvent(cls) ELSE doc.event]

PingEvent == [ok |-> TRUE, cls |-> "PingEvent", event |-> "ping"]

\* ============================================ streaming/sse_parser.py
\* SSEParser._parse_event_line
ParseEventLine(line) ==
    LET c == FirstColon(line)
        rest == SubSeq(line, c + 1, Len(line))
    IN  IF c > 0
        THEN [field |-> SubSeq(line, 1, c - 1),
              value |-> IF rest # <<>> /\ Head(rest) = Space
                        THEN Tail(rest) ELSE rest]
        ELSE [field |-> line, value |-> <<>>]

\* the identifier a string spells, for dictionary lookups
TextOf(s) == IF Len(s) = 1 /\ s[1].t = "word" THEN s[1].v ELSE "<other>"

\* the failure raised without the raw text
StreamingError_NoData(msg, data) ==
    [ok |-> FALSE, exc |-> "StreamingError", msg |-> msg, event_data |-> <<>>]

StreamingError(msg, data) ==
    [ok |-> FALSE, exc |-> "StreamingError", msg |-> msg, event_data |-> data]

\* _create_event rejecting an event type it has no model for
CreateEvent_Strict(etype, data) ==
    LET doc == IF data # <<>> THEN JsonLoads(data) ELSE EmptyObject
        name == TextOf(etype)
    IN  IF doc.type = "error"
        THEN StreamingError("Failed to parse event data", data)
        ELSE IF name \in DOMAIN EVENT_MODELS /\ Validates(EVENT_MODELS[name], doc)
        THEN Event(EVENT_MODELS[name], doc)
        ELSE StreamingError("Failed to create event", data)

\* SSEParser._create_event
CreateEvent(etype, data) ==
    LET doc == IF data # <<>> THEN JsonLoads(data) ELSE EmptyObject
        name == TextOf(etype)
    IN  IF doc.type = "error"
        THEN StreamingError("Failed to parse event data", data)
        ELSE IF name \in DOMAIN EVENT_MODELS
        THEN IF Validates(EVENT_MODELS[name], doc)
             THEN Event(EVENT_MODELS[name], doc)
             ELSE StreamingError("Failed to create event", data)
        ELSE IF doc.type # "object" \/ doc.event = ListValue
        THEN StreamingError("Failed to create event", data)
        ELSE IF doc.event \in DOMAIN EVENT_MODELS
        THEN IF Validates(EVENT_MODELS[doc.event], doc)
             THEN Event(EVENT_MODELS[doc.event], doc)
             ELSE StreamingError("Failed to create event", data)
        ELSE PingEvent

\* `event_type or "message"` at the two call sites of _create_event
EffectiveType(etype) == IF etype = <<>> THEN <<W("message")>> ELSE etype

NoExc == [ok |-> TRUE, exc |-> None]

\* what a yielded event is recorded as: the event, the positions of the data
\* lines it was built from and the position of the line that completed it
Yielded(ev) == [ev |-> ev, from |-> data_at, at |-> Len(lines) + 1]

\* the default of the argument event_timeout of SSEParser.__init__
EVENT_TIMEOUT == 60

\* SSEParser.__init__
ParserInit ==
    /\ event_timeout \in {EVENT_TIMEOUT, 30}
    /\ overdue = FALSE
    /\ last_event_id = NoneText
    /\ reconnect_attempts = 0
    /\ pc = "idle"
    /\ mode = "sync"
    /\ event_type = <<>>
    /\ event_id = <<>>
    /\ data_lines = <<>>
    /\ raised = NoExc
    /\ lines = <<>>
    /\ emitted = <<>>
    /\ data_at = <<>>
    /\ fails = 0
    /\ parses = 0

\* a call of parse_sync / parse_async on a fresh response
StartParse(m) ==
    /\ pc \in {"idle", "done", "raised"}
    /\ parses < MaxParses
    /\ parses' = parses + 1
    /\ mode' = m
    /\ event_type' = <<>>
    /\ event_id' = <<>>
    /\ data_lines' = <<>>
    /\ data_at' = <<>>
    /\ lines' = <<>>
    /\ emitted' = <<>>
    /\ raised' = NoExc
    /\ pc' = "reading"
    /\ overdue' = FALSE
    /\ UNCHANGED <<last_event_id, reconnect_attempts, fails, frame>>
    /\ UNCHANGED <<concVars, batchVars, apiVars, event_timeout>>

\* the dispatch on an empty line with data accumulated, up to the yield
Dispatch ==
    LET r == CreateEvent(EffectiveType(event_type), Join(data_lines, NL))
    IN  /\ last_event_id' = IF event_id # <<>> THEN event_id ELSE last_event_id
        /\ IF r.ok
           THEN /\ emitted' = Append(emitted, Yielded(r))
                /\ fails' = 0
                /\ pc' = "yielded"
                /\ raised' = raised
           ELSE /\ raised' = r
                /\ pc' = "raised"
                /\ UNCHANGED <<emitted, fails>>
        /\ UNCHANGED <<event_type, event_id, data_lines, data_at>>

\* the assignment a non-empty line makes
StoreField(line) ==
    LET f == ParseEventLine(line)
        name == TextOf(f.field)
    IN  /\ event_type' = IF name = "event" THEN f.value ELSE event_type
        /\ event_id' = IF name = "id" THEN f.value ELSE event_id
        /\ data_lines' = IF name = "data" THEN Append(data_lines, f.value)
                         ELSE data_lines
        /\ data_at' = IF name = "data" THEN Append(data_at, Len(lines) + 1)
                      ELSE data_at
        /\ UNCHANGED <<last_event_id, emitted, fails, pc, raised>>

\* a blank line that completes nothing clears the pending type and id
ProcessLine_BlankResets(raw) ==
    LET line == Strip(raw)
    IN  /\ pc = "reading"
        /\ lines' = Append(lines, raw)
        /\ IF line = <<>>
           THEN IF data_lines # <<>>
                THEN Dispatch
                ELSE /\ event_type' = <<>>
                     /\ event_id' = <<>>
                     /\ UNCHANGED <<last_event_id, emitted, fails, pc,
                                    raised, data_lines, data_at>>
           ELSE StoreField(line)
        /\ overdue' = FALSE
        /\ UNCHANGED <<reconnect_attempts, mode, parses>>
        /\ UNCHANGED <<concVars, batchVars, apiVars, event_timeout>>

\* one iteration of the loop over the lines of the response
ProcessLine(raw) ==
    LET line == Strip(raw)
    IN  /\ pc = "reading"
        /\ lines' = Append(lines, raw)
        /\ IF line = <<>>
           THEN IF data_lines # <<>>
                THEN Dispatch
                ELSE UNCHANGED <<last_event_id, emitted, fails, pc, raised,
                                 event_type, event_id, data_lines, data_at>>
           ELSE StoreField(line)
        /\ overdue' = FALSE
        /\ UNCHANGED <<reconnect_attempts, mode, parses>>
        /\ UNCHANGED <<concVars, batchVars, apiVars, event_timeout>>

\* the working values left as they are after the yield
ResumeAfterYield_KeepData ==
    /\ event_type' = <<>>
    /\ event_id' = <<>>
    /\ UNCHANGED <<data_lines, data_at>>
    /\ reconnect_attempts' = 0
    /\ pc' = "reading"

\* the consumer asks for the next event: the generator runs on from its yield
ResumeAfterYield ==
    /\ event_type' = <<>>
    /\ event_id' = <<>>
    /\ data_lines' = <<>>
    /\ data_at' = <<>>
    /\ reconnect_attempts' = 0
    /\ pc' = "reading"

Resume ==
    /\ pc \in {"yielded", "flushed"}
    /\ IF pc = "yielded"
       THEN ResumeAfterYield
       ELSE /\ pc' = "done"
            /\ UNCHANGED <<event_type, event_id, data_lines, data_at,
                           reconnect_attempts>>
    /\ UNCHANGED <<last_event_id, mode, raised, frame, lines, emitted,
                   fails, parses>>
    /\ UNCHANGED <<concVars, batchVars, apiVars, event_timeout, overdue>>

\* the generator ending without a look at the accumulated lines
Flush_Dropped ==
    /\ pc' = "done"
    /\ UNCHANGED <<emitted, fails, raised>>

\* the code after the loop: the last event when no empty line ended it
Flush ==
    LET r == CreateEvent(EffectiveType(event_type), Join(data_lines, NL))
    IN  IF data_lines # <<>>
        THEN IF r.ok
             THEN /\ emitted' = Append(emitted, Yielded(r))
                  /\ fails' = 0
                  /\ pc' = "flushed"
                  /\ raised' = raised
             ELSE /\ raised' = r
                  /\ pc' = "raised"
                  /\ UNCHANGED <<emitted, fails>>
        ELSE /\ pc' = "done"
             /\ UNCHANGED <<emitted, fails, raised>>

\* the line source is exhausted
EndOfSource ==
    /\ pc = "reading"
    /\ Flush
    /\ UNCHANGED <<last_event_id, reconnect_attempts, mode, event_type,
                   event_id, data_lines, data_at, lines, parses, frame>>
    /\ UNCHANGED <<concVars, batchVars, apiVars, event_timeout, overdue>>

\* the handler of httpx.ReadError raised by the line source
ReadError ==
    /\ pc = "reading"
    /\ reconnect_attempts' = reconnect_attempts + 1
    /\ raised' = [ok |-> FALSE, exc |-> "StreamingConnectionError",
                  reconnect_attempts |-> reconnect_attempts + 1]
    /\ fails' = fails + 1
    /\ pc' = "raised"
    /\ UNCHANGED <<last_event_id, mode, event_type, event_id, data_lines,
                   data_at, frame, lines, emitted, parses>>
    /\ UNCHANGED <<concVars, batchVars, apiVars, event_timeout, overdue>>

\* time passes with no line from the response: the wait is now longer than
\* event_timeout (nothing in parse_async or parse_sync measures it)
Tick ==
    /\ pc = "reading"
    /\ ~overdue
    /\ overdue' = TRUE
    /\ UNCHANGED <<last_event_id, reconnect_attempts, pc, mode, event_type,
                   event_id, data_lines, raised, frame, lines, emitted,
                   data_at, fails, parses, event_timeout>>
    /\ UNCHANGED <<concVars, batchVars, apiVars>>

\* the failure that leaves the generator when the line source raises exc
\* on a timeout: asyncio.TimeoutError is caught by parse_async only,
\* httpx.ReadTimeout by neither
TimeoutFailure(m, exc) ==
    IF m = "async" /\ exc = "TimeoutError"
    THEN [ok |-> FALSE, exc |-> "StreamingTimeoutError",
          timeout_seconds |-> event_timeout]
    ELSE [ok |-> FALSE, exc |-> exc, timeout_seconds |-> 0]

\* the line source gives up waiting and raises
SourceTimeout(exc) ==
    /\ pc = "reading"
    /\ overdue
    /\ raised' = TimeoutFailure(mode, exc)
    /\ pc' = "raised"
    /\ UNCHANGED <<last_event_id, reconnect_attempts, mode, event_type,
                   event_id, data_lines, frame, lines, emitted, data_at,
                   fails, parses, event_timeout, overdue>>
    /\ UNCHANGED <<concVars, batchVars, apiVars>>

\* SSEParser.reset
Reset ==
    /\ pc \in {"idle", "done", "raised"}
    /\ last_event_id' = NoneText
    /\ reconnect_attempts' = 0
    /\ fails' = 0
    /\ UNCHANGED <<pc, mode, event_type, event_id, data_lines, raised, frame,
                   lines, emitted, data_at, parses>>
    /\ UNCHANGED <<concVars, batchVars, apiVars, event_timeout, overdue>>

\* ======================================== cli/async_console_client.py
AppKinds == {"export", "import", "get_info", "delete"}
UpgradeKinds == {"upgrade", "upgrade_serial"}
\* the calls made on the synchronous ConsoleClient
SyncKinds == {"upgrade_serial", "sync_delete"}
BatchKinds == AppKinds \cup UpgradeKinds \cup {"sync_delete"}
HttpOutcomes == {"ok", "empty", "e404", "e500"}

NoSemaphore == [made |-> FALSE, value |-> 0, waiters |-> <<>>]
NoBatch == [kind |-> None, n |-> 0, phase |-> "none"]
NoLog == [on |-> FALSE, order |-> <<>>]
NoResult == [set |-> FALSE, raised |-> FALSE, key |-> 0, value |-> None,
             error |-> None]

\* AsyncConsoleClient.__init__
ClientInit ==
    /\ max_concurrency \in 1..MaxConcurrency
    /\ access_token = None
    /\ csrf_token = None
    /\ client = None
    /\ semaphore = NoSemaphore
    /\ batch = NoBatch
    /\ task = <<>>
    /\ results = <<>>
    /\ holder = "never"
    /\ last_login = None
    /\ ended = NoLog

\* AsyncConsoleClient._get_client: the handle is created when there is none
GetClient(c) == IF c = None THEN "open" ELSE c

\* a semaphore made anew for every request
GetSemaphore_Fresh(sem) ==
    [made |-> TRUE, value |-> max_concurrency, waiters |-> <<>>]

\* AsyncConsoleClient._get_semaphore
GetSemaphore(sem) ==
    IF ~sem.made
    THEN [made |-> TRUE, value |-> max_concurrency, waiters |-> <<>>]
    ELSE sem

\* asyncio.Semaphore as _request uses it in `async with semaphore`
Locked(sem) == sem.value = 0 \/ sem.waiters # <<>>

\* entering the block without waiting for a slot
SemEnter_Barge(sem, i) ==
    [sem |-> [sem EXCEPT !.value = IF @ > 0 THEN @ - 1 ELSE 0], got |-> TRUE]

SemEnter(sem, i) ==
    IF Locked(sem)
    THEN [sem |-> [sem EXCEPT !.waiters = Append(@, i)], got |-> FALSE]
    ELSE [sem |-> [sem EXCEPT !.value = @ - 1], got |-> TRUE]

\* leaving the block with the slot kept from the queued requests
SemExit_NoWake(sem) ==
    IF sem.waiters # <<>>
    THEN [sem |-> sem, woken |-> 0]
    ELSE [sem |-> [sem EXCEPT !.value = @ + 1], woken |-> 0]

\* leaving the block frees the slot; a queued request takes it at once
SemExit(sem) ==
    IF sem.waiters # <<>>
    THEN [sem |-> [sem EXCEPT !.waiters = Tail(@)], woken |-> Head(sem.waiters)]
    ELSE [sem |-> [sem EXCEPT !.value = @ + 1], woken |-> 0]

\* AsyncConsoleClient.login, with the response the server gives
Login(resp) ==
    /\ batch.phase = "none"
    /\ client' = GetClient(client)
    /\ IF resp = "http_error"
       THEN UNCHANGED <<access_token, csrf_token>>
       ELSE /\ access_token' = IF resp = "no_token" THEN None ELSE "token"
            /\ csrf_token' = IF resp = "token_csrf" THEN "csrf" ELSE None
    /\ last_login' = resp
    /\ holder' = IF resp \in {"token_only", "token_csrf"}
                 THEN "authenticated" ELSE holder
    /\ UNCHANGED <<parserVars, apiVars, concVars>>
    /\ UNCHANGED <<max_concurrency, semaphore, batch, task, results, ended>>

\* AsyncConsoleClient.close / ConsoleClient.close
Close ==
    /\ batch.phase # "running"
    /\ client' = None
    /\ holder' = IF holder = "authenticated" THEN "closed" ELSE holder
    /\ UNCHANGED <<parserVars, apiVars, concVars>>
    /\ UNCHANGED <<last_login, max_concurrency, access_token, csrf_token,
                   semaphore, batch, task, results, ended>>

\* what _request gives back for a response, after raise_for_status
RequestResult(outcome) ==
    CASE outcome = "ok" -> [raises |-> FALSE, value |-> "json", exc |-> None]
      [] outcome = "empty" -> [raises |-> FALSE, value |-> "{}", exc |-> None]
      [] outcome = "e404" -> [raises |-> TRUE, value |-> None, exc |-> "HTTP404"]
      [] outcome = "e500" -> [raises |-> TRUE, value |-> None, exc |-> "HTTP500"]

\* _request before login
NotLoggedIn == [raises |-> TRUE, value |-> None, exc |-> "RuntimeError"]

Returns(v) == [raises |-> FALSE, value |-> v, exc |-> None]

\* export_app, import_app, get_app and delete_app applied to what their
\* single _request gave
OpResult(kind, r) ==
    CASE kind = "export" ->
            IF r.raises THEN r
            ELSE Returns(IF r.value = "json" THEN "yaml" ELSE "")
      [] kind = "import" ->
            IF r.raises THEN r
            ELSE Returns(IF r.value = "json" THEN "record" ELSE "{}")
      [] kind = "get_info" ->
            IF r.raises
            THEN IF r.exc = "HTTP404" THEN Returns(None) ELSE r
            ELSE Returns(IF r.value = "json" THEN "record" ELSE None)
      [] kind = "delete" ->
            IF r.raises THEN r ELSE Returns("True")

\* the wrappers without their `except Exception`
SingleResult_NoCatch(kind, key, o) ==
    [set |-> TRUE, raised |-> o.raises, key |-> key,
     value |-> IF o.raises THEN None ELSE o.value, error |-> None]

\* delete_single reporting success next to the error
SingleResult_FlagWithError(kind, key, o) ==
    [set |-> TRUE, raised |-> FALSE, key |-> key,
     value |-> IF o.raises
               THEN IF kind = "delete" THEN "True" ELSE None
               ELSE o.value,
     error |-> IF o.raises THEN o.exc ELSE None]

\* export_single, import_single, get_single, delete_single
SingleResult(kind, key, o) ==
    [set |-> TRUE, raised |-> FALSE, key |-> key,
     value |-> IF o.raises
               THEN IF kind = "delete" THEN "False" ELSE None
               ELSE o.value,
     error |-> IF o.raises THEN o.exc ELSE None]

\* ------------------------------------------------ the per-item coroutines
\* the items whose request is inside the gate, sent and not yet answered
InFlight == {i \in 1..batch.n : task[i].pc = "in_flight"}
\* the items queued at the gate
Waiting == {i \in 1..batch.n : task[i].pc = "waiting"}

NewTask(latest, inst) ==
    [pc |-> "new", step |-> "none", http |-> None, latest |-> latest,
     inst |-> inst, err |-> None, result |-> NoResult,
     sent |-> <<>>, resp |-> <<>>]

Done(t, res) == [t EXCEPT !.pc = "done", !.result = res]

\* the tuple upgrade_single returns
UpgradeResult(key, ok, err) ==
    [set |-> TRUE, raised |-> FALSE, key |-> key,
     value |-> IF ok THEN "True" ELSE "False", error |-> err]

\* _request from its token check to the entry of `async with semaphore`:
\* the new semaphore and the new state of the coroutine of item i
SendRequest(sem, t, i, step) ==
    LET e == SemEnter(GetSemaphore(sem), i)
    IN  [sem |-> e.sem,
         t |-> [t EXCEPT !.step = step,
                         !.sent = Append(@, step),
                         !.pc = IF e.got THEN "in_flight" ELSE "waiting"]]

\* ConsoleClient._request: the call blocks until the response is there
SyncRequest(sem, t, i, step) ==
    [sem |-> sem,
     t |-> [t EXCEPT !.step = step, !.sent = Append(@, step),
                     !.pc = "in_flight"]]

Keep(sem, t) == [sem |-> sem, t |-> t]

\* the log of ended coroutines after coroutine i has run on to state t
Ended(i, t) ==
    IF ended.on /\ t.pc = "done"
    THEN [ended EXCEPT !.order = Append(@, i)]
    ELSE ended

\* a batch call: the coroutines are created, none has run yet
StartBatch(kind, n, inp) ==
    /\ batch.phase = "none"
    /\ kind = "upgrade" => access_token # None /\ n > 1
    /\ kind = "upgrade_serial" => access_token # None /\ n > 0
    /\ kind = "sync_delete" => n = 1
    /\ batch' = [kind |-> kind, n |-> n, phase |-> "running"]
    /\ task' = [i \in 1..n |-> NewTask(inp[i].latest, inp[i].inst)]
    /\ UNCHANGED <<parserVars, apiVars, concVars>>
    /\ UNCHANGED <<holder, last_login, max_concurrency, access_token, csrf_token, client,
                   semaphore, results, ended>>

\* uninstall_plugin and install_plugin_from_marketplace, one _request each:
\* of ConsoleClient in _upgrade_plugins_serial, of AsyncConsoleClient as
\* upgrade_single awaits them
PluginCall(sem, t, i, step) ==
    IF batch.kind = "upgrade_serial"
    THEN SyncRequest(sem, t, i, step)
    ELSE SendRequest(sem, t, i, step)

\* an app coroutine that sends its request without the token check
StartApp_NoCheck(sem, t, i) == SendRequest(sem, t, i, "op")

\* an app coroutine from its start to its first suspension
StartApp(sem, t, i) ==
    IF access_token = None
    THEN Keep(sem, Done(t, SingleResult(batch.kind, i,
                                        OpResult(batch.kind, NotLoggedIn))))
    ELSE SendRequest(sem, t, i, "op")

\* what a call of ConsoleClient.delete_app gives its caller: the value
\* returned or the exception raised
SyncResult(key, o) ==
    [set |-> TRUE, raised |-> FALSE, key |-> key,
     value |-> IF o.raises THEN None ELSE o.value,
     error |-> IF o.raises THEN o.exc ELSE None]

\* ConsoleClient.delete_app up to its request
StartSync(sem, t, i) ==
    IF access_token = None
    THEN Keep(sem, Done(t, SyncResult(i, OpResult("delete", NotLoggedIn))))
    ELSE SyncRequest(sem, t, i, "op")

\* an upgrade that goes on without a latest version
StartUpgrade_IgnoreLatest(sem, t, i) ==
    PluginCall(sem, t, i, IF t.inst THEN "uninstall" ELSE "install")

\* upgrade_single, or one turn of the loop of _upgrade_plugins_serial, from
\* its start to its first request
StartUpgrade(sem, t, i) ==
    IF ~t.latest
    THEN Keep(sem, Done(t, UpgradeResult(i, FALSE, "Exception")))
    ELSE PluginCall(sem, t, i, IF t.inst THEN "uninstall" ELSE "install")

\* the event loop runs the coroutines first in the order gather was given
StartTask(i) ==
    /\ batch.phase = "running"
    /\ i \in 1..batch.n
    /\ task[i].pc = "new"
    /\ \A j \in 1..(i - 1) : task[j].pc # "new"
    /\ batch.kind = "upgrade_serial" => \A j \in 1..(i - 1) : task[j].pc = "done"
    /\ LET x == IF batch.kind \in UpgradeKinds
                THEN StartUpgrade(semaphore, task[i], i)
                ELSE IF batch.kind = "sync_delete"
                THEN StartSync(semaphore, task[i], i)
                ELSE StartApp(semaphore, task[i], i)
       IN  /\ semaphore' = x.sem
           /\ task' = [task EXCEPT ![i] = x.t]
           /\ client' = IF access_token = None /\ batch.kind \notin UpgradeKinds
                        THEN client
                        ELSE IF batch.kind \in UpgradeKinds /\ ~task[i].latest
                        THEN client ELSE GetClient(client)
           /\ ended' = Ended(i, x.t)
    /\ UNCHANGED <<parserVars, apiVars, concVars>>
    /\ UNCHANGED <<holder, last_login, max_concurrency, access_token, csrf_token, batch, results>>

\* an app coroutine from the response of its request to its end
FinishApp(sem, t, i, outcome) ==
    Keep(sem, Done([t EXCEPT !.http = outcome, !.resp = Append(@, outcome)],
                   SingleResult(batch.kind, i,
                                OpResult(batch.kind, RequestResult(outcome)))))

\* ConsoleClient.delete_app from the response of its request
FinishSync(sem, t, i, outcome) ==
    Keep(sem, Done([t EXCEPT !.http = outcome, !.resp = Append(@, outcome)],
                   SyncResult(i, OpResult("delete", RequestResult(outcome)))))

\* upgrade_single reporting the plugin by the outcome of the rollback
ContinueUpgrade_RollbackDecides(sem, t, i, outcome) ==
    LET r == RequestResult(outcome)
        u == [t EXCEPT !.http = outcome, !.resp = Append(@, outcome)]
        f == [u EXCEPT !.err = r.exc]
    IN  CASE t.step = "uninstall" ->
                IF ~r.raises THEN PluginCall(sem, u, i, "install")
                ELSE IF t.inst THEN PluginCall(sem, f, i, "rollback")
                ELSE Keep(sem, Done(f, UpgradeResult(i, FALSE, r.exc)))
          [] t.step = "install" ->
                IF ~r.raises THEN Keep(sem, Done(u, UpgradeResult(i, TRUE, None)))
                ELSE IF t.inst THEN PluginCall(sem, f, i, "rollback")
                ELSE Keep(sem, Done(f, UpgradeResult(i, FALSE, r.exc)))
          [] OTHER ->
                IF ~r.raises THEN Keep(sem, Done(u, UpgradeResult(i, TRUE, None)))
                ELSE Keep(sem, Done(u, UpgradeResult(i, FALSE, t.err)))

\* upgrade_single from the response of a request to its next suspension
ContinueUpgrade(sem, t, i, outcome) ==
    LET r == RequestResult(outcome)
        u == [t EXCEPT !.http = outcome, !.resp = Append(@, outcome)]
        f == [u EXCEPT !.err = r.exc]
    IN  CASE t.step = "uninstall" ->
                IF ~r.raises THEN PluginCall(sem, u, i, "install")
                ELSE IF t.inst THEN PluginCall(sem, f, i, "rollback")
                ELSE Keep(sem, Done(f, UpgradeResult(i, FALSE, r.exc)))
          [] t.step = "install" ->
                IF ~r.raises THEN Keep(sem, Done(u, UpgradeResult(i, TRUE, None)))
                ELSE IF t.inst THEN PluginCall(sem, f, i, "rollback")
                ELSE Keep(sem, Done(f, UpgradeResult(i, FALSE, r.exc)))
          [] OTHER -> Keep(sem, Done(u, UpgradeResult(i, FALSE, t.err)))

\* the response of the request of item i arrives: _request leaves the
\* semaphore block and the coroutine runs on to its next suspension
Complete(i, outcome) ==
    /\ batch.phase = "running"
    /\ i \in 1..batch.n
    /\ task[i].pc = "in_flight"
    /\ batch.kind \in UpgradeKinds => outcome \in {"ok", "e500"}
    /\ LET r == IF batch.kind \in SyncKinds
                THEN [sem |-> semaphore, woken |-> 0]
                ELSE SemExit(semaphore)
           x == IF batch.kind \in UpgradeKinds
                THEN ContinueUpgrade(r.sem, task[i], i, outcome)
                ELSE IF batch.kind = "sync_delete"
                THEN FinishSync(r.sem, task[i], i, outcome)
                ELSE FinishApp(r.sem, task[i], i, outcome)
       IN  /\ semaphore' = x.sem
           /\ task' = [j \in 1..batch.n |->
                         IF j = i THEN x.t
                         ELSE IF j = r.woken
                         THEN [task[j] EXCEPT !.pc = "in_flight"]
                         ELSE task[j]]
           /\ ended' = Ended(i, x.t)
    /\ UNCHANGED <<parserVars, apiVars, concVars>>
    /\ UNCHANGED <<holder, last_login, max_concurrency, access_token, csrf_token, client, batch,
                   results>>

\* the results in the order in which the coroutines ended
Gather_AsCompleted(ts) ==
    [k \in 1..Len(ts) |->
        IF k <= Len(ended.order) THEN ts[ended.order[k]].result
                                 ELSE ts[k].result]

\* asyncio.gather: the results of the coroutines in the order they were given
Gather(ts) == [i \in 1..Len(ts) |-> ts[i].result]

\* the batch call returns when every coroutine has ended
GatherReturn ==
    /\ batch.phase = "running"
    /\ \A i \in 1..batch.n : task[i].pc = "done"
    /\ IF \E i \in 1..batch.n : task[i].result.raised
       THEN /\ batch' = [batch EXCEPT !.phase = "raised"]
            /\ results' = results
       ELSE /\ batch' = [batch EXCEPT !.phase = "returned"]
            /\ results' = Gather(task)
    /\ UNCHANGED <<parserVars, apiVars, concVars>>
    /\ UNCHANGED <<holder, last_login, max_concurrency, access_token, csrf_token, client,
                   semaphore, task, ended>>

\* ======================================================= specifications
\* ====================================================== client/base.py
\* members of an error body: "message", "code" and "retry_after"
MsgM(v) == Tok("message", v)
CodeM(v) == Tok("code", v)
RetryM(v) == Tok("retry_after", v)

\* values of "message" that are not strings: an object and null
DictValue == "<dict>"
NullValue == "<null>"
IsStr(v) == v \notin {DictValue, NullValue, ListValue}
\* "quota" in message.lower()
HasQuota(v) == v = "Quota exhausted"

\* response_data: None, a dict, or a JSON value that is no dict
NoData == [type |-> "none", message |-> Absent, code |-> Absent,
           retry_after |-> Absent]
Dict(m, c, r) == [type |-> "dict", message |-> m, code |-> c, retry_after |-> r]
NotADict == [type |-> "number", message |-> Absent, code |-> Absent,
             retry_after |-> Absent]

NoApiError == [exc |-> None, message |-> Absent, status_code |-> 0,
               error_code |-> None, retry_after |-> None]
ApiError(exc, m, st, code, retry) ==
    [exc |-> exc, message |-> m, status_code |-> st, error_code |-> code,
     retry_after |-> retry]
AttributeError == ApiError("AttributeError", Absent, 0, None, None)

\* dict.get(key, default)
Get(v, default) == IF v = Absent THEN default ELSE v

\* handle_error_response
HandleErrorResponse(status, data) ==
    LET message == Get(data.message, "Unknown error")
        error_code == Get(data.code, "")
    IN  IF data.type = "number" THEN AttributeError
        ELSE IF status = 401
        THEN ApiError("AuthenticationError", message, 401,
                      "authentication_error", None)
        ELSE IF status = 404
        THEN ApiError("NotFoundError", message, 404, "not_found", None)
        ELSE IF status = 429
        THEN ApiError("RateLimitError", message, 429, "rate_limit_exceeded",
                      Get(data.retry_after, None))
        ELSE IF status = 400
        THEN IF error_code = "quota_exceeded"
             THEN ApiError("QuotaExceededError", message, 400,
                           "quota_exceeded", None)
             ELSE IF ~IsStr(message) THEN AttributeError
             ELSE IF HasQuota(message)
             THEN ApiError("QuotaExceededError", message, 400,
                           "quota_exceeded", None)
             ELSE ApiError("InvalidRequestError", message, 400,
                           IF error_code = "" THEN "invalid_request"
                           ELSE error_code, None)
        ELSE IF status >= 500
        THEN ApiError("ServerError", message, status, "server_error", None)
        ELSE ApiError("DifyAPIError", message, status, error_code, None)

\* the call handle_error_response(status_code, response_data)
HandleError ==
    /\ api_error = NoApiError
    /\ status_code # 0
    /\ api_error' = HandleErrorResponse(status_code, response_data)
    /\ UNCHANGED <<status_code, error_text, response_data>>
    /\ UNCHANGED <<parserVars, batchVars, concVars>>

\* ============================== client/async_client.py, sync_client.py
\* the text of a non-JSON error body, as the message made of it
BodyText == "<body text>"

IsErrorMember(tok) == tok.t \in {"message", "code", "retry_after"}

\* the value of the last member named name of the members ms
RECURSIVE LastMember(_, _)
LastMember(ms, name) ==
    IF ms = <<>> THEN Absent
    ELSE IF ms[Len(ms)].t = name THEN ms[Len(ms)].v
    ELSE LastMember(SubSeq(ms, 1, Len(ms) - 1), name)

\* the try/except around json.loads(error_text.decode()) in stream_request
DecodeErrorBody(text) ==
    LET t == SelectSeq(text, LAMBDA x : x \notin {Space, NL})
        ms == SubSeq(t, 2, Len(t) - 1)
    IN  IF t = <<Num>> THEN NotADict
        ELSE IF /\ Len(t) >= 2
                /\ t[1] = LB
                /\ t[Len(t)] = RB
                /\ \A i \in 1..Len(ms) : IsErrorMember(ms[i])
        THEN Dict(LastMember(ms, "message"), LastMember(ms, "code"),
                  LastMember(ms, "retry_after"))
        ELSE Dict(BodyText, Absent, Absent)

\* `client.stream(...) as response`: the head of the response is there
OpenStream(st, body) ==
    /\ status_code = 0
    /\ status_code' = st
    /\ error_text' = body
    /\ UNCHANGED <<response_data, api_error>>
    /\ UNCHANGED <<parserVars, batchVars, concVars>>

\* stream_request on a status of 400 or above: the body is read, decoded
\* and handed to handle_error_response
RaiseForStatus ==
    /\ status_code >= 400
    /\ api_error = NoApiError
    /\ LET d == DecodeErrorBody(error_text)
       IN  /\ response_data' = d
           /\ api_error' = HandleErrorResponse(status_code, d)
    /\ UNCHANGED <<status_code, error_text>>
    /\ UNCHANGED <<parserVars, batchVars, concVars>>

\* stream_request on any other status: the response is given to the parser
BeginParse(m) ==
    /\ status_code # 0
    /\ status_code < 400
    /\ pc = "idle"
    /\ StartParse(m)

\* ------------------------------------------- ConfigLoader (config/loader.py)
ConfigTypes == {"SampleConfig", "ServerConfig"}
Threads == 1..MaxThreads

Unlocked == 0
NoInstances == [t \in {} |-> 0]
NoCaller == [pc |-> "idle", type |-> None, missing |-> FALSE]

\* class attributes _instances and _lock, before any construction
LoaderInit ==
    /\ instances = NoInstances
    /\ loader_lock = Unlocked
    /\ created = 0
    /\ resets = 0
    /\ caller = [th \in Threads |-> NoCaller]
    /\ obtained = {}

\* a thread calls ConfigLoader(config_type)
Construct(th, type) ==
    /\ caller[th].pc = "idle"
    /\ created < MaxLoaders
    /\ caller' = [caller EXCEPT ![th] = [pc |-> "new", type |-> type,
                                         missing |-> FALSE]]
    /\ UNCHANGED <<instances, loader_lock, created, resets, obtained>>

\* __new__ without the class lock
Acquire_NoLock(th) ==
    /\ caller[th].pc = "new"
    /\ loader_lock' = th
    /\ caller' = [caller EXCEPT ![th].pc = "locked"]
    /\ UNCHANGED <<instances, created, resets, obtained>>

\* with cls._lock:
Acquire(th) ==
    /\ caller[th].pc = "new"
    /\ loader_lock = Unlocked
    /\ loader_lock' = th
    /\ caller' = [caller EXCEPT ![th].pc = "locked"]
    /\ UNCHANGED <<instances, created, resets, obtained>>

\* if config_type not in cls._instances:
CheckInstance(th) ==
    /\ caller[th].pc = "locked"
    /\ caller' = [caller EXCEPT
                    ![th].pc = "checked",
                    ![th].missing = (caller[th].type \notin DOMAIN instances)]
    /\ UNCHANGED <<instances, loader_lock, created, resets, obtained>>

\* instance = super().__new__(cls); cls._instances[config_type] = instance
CreateInstance(th) ==
    /\ caller[th].pc = "checked"
    /\ IF caller[th].missing
         THEN /\ created' = created + 1
              /\ instances' =
                    [t \in DOMAIN instances \cup {caller[th].type} |->
                        IF t = caller[th].type THEN created + 1
                                               ELSE instances[t]]
         ELSE UNCHANGED <<instances, created>>
    /\ caller' = [caller EXCEPT ![th].pc = "stored"]
    /\ UNCHANGED <<loader_lock, resets, obtained>>

\* return cls._instances[config_type], leaving the with block
ReturnInstance(th) ==
    /\ caller[th].pc = "stored"
    /\ caller[th].type \in DOMAIN instances
    /\ obtained' = obtained \cup
            {[type |-> caller[th].type,
              loader |-> instances[caller[th].type],
              after |-> resets]}
    /\ loader_lock' = IF loader_lock = th THEN Unlocked ELSE loader_lock
    /\ caller' = [caller EXCEPT ![th] = NoCaller]
    /\ UNCHANGED <<instances, created, resets>>

\* ConfigLoader.reset(): the whole body runs under the class lock
ResetLoader ==
    /\ loader_lock = Unlocked
    /\ resets < MaxResets
    /\ resets' = resets + 1
    /\ instances' = NoInstances
    /\ UNCHANGED <<loader_lock, created, caller, obtained>>

\* ---------------- one client shared by concurrent callers
\* (cli/console_client.py, cli/async_console_client.py,
\*  client/sync_client.py, client/async_client.py)
ClientClasses == {"AsyncConsoleClient", "ConsoleClient",
                  "AsyncDifyClient", "SyncDifyClient"}
Callers == 1..MaxCallers

\* coroutines of one event loop take turns at their awaits; threads
\* interleave at every statement
IsAsync == klass \in {"AsyncConsoleClient", "AsyncDifyClient"}
\* the console clients keep tokens and guard _get_client with self._lock
IsConsole == klass \in {"AsyncConsoleClient", "ConsoleClient"}

CallsOf(k) ==
    IF k \in {"AsyncConsoleClient", "ConsoleClient"}
      THEN {"request", "login", "close"}
      ELSE {"request", "close"}

NoCall == [call |-> None, pc |-> "idle", client |-> 0, csrf |-> 0,
           create |-> FALSE, slot |-> FALSE]

\* __init__ of the four clients
SharedInit ==
    /\ cc_access_token = 0
    /\ cc_csrf_token = 0
    /\ cc_client = 0
    /\ cc_closed = {}
    /\ cc_headers = <<>>
    /\ cc_lock = 0
    /\ cc_slots = max_concurrency
    /\ cc_op = [c \in Callers |-> NoCall]
    /\ cc_running = 0
    /\ cc_sent = {}
    /\ cc_calls = 0
    /\ cc_logins = 0

CanRun(c) == cc_running \in {0, c}
\* after a step without an await the coroutine keeps the event loop
Continue(c) == IF IsAsync THEN c ELSE 0

Goto(c, at) == [cc_op EXCEPT ![c].pc = at]
\* the call returns or raises: its slot and lock are given back
Leave(c) == [cc_op EXCEPT ![c] = NoCall]

\* a caller starts _request / post, login() or close()
BeginCall(c, call) ==
    /\ cc_op[c].pc = "idle"
    /\ CanRun(c)
    /\ cc_calls < MaxCalls
    /\ call \in CallsOf(klass)
    /\ cc_calls' = cc_calls + 1
    /\ cc_op' = [cc_op EXCEPT ![c] =
                    [NoCall EXCEPT
                        !.call = call,
                        !.pc = CASE call = "close" -> "close_check"
                                 [] call = "request" /\ IsConsole -> "check_token"
                                 [] OTHER -> "get_client"]]
    /\ cc_running' = Continue(c)
    /\ UNCHANGED <<klass, cc_access_token, cc_csrf_token, cc_client, cc_closed,
                   cc_headers, cc_lock, cc_slots, cc_sent, cc_logins>>

\* _request: if not self._access_token: raise RuntimeError
CheckLoggedIn(c) ==
    /\ cc_op[c].pc = "check_token"
    /\ CanRun(c)
    /\ IF cc_access_token = 0
         THEN /\ cc_op' = Leave(c)
              /\ cc_running' = 0
         ELSE /\ cc_op' = Goto(c, "get_client")
              /\ cc_running' = Continue(c)
    /\ UNCHANGED <<klass, cc_access_token, cc_csrf_token, cc_client, cc_closed,
                   cc_headers, cc_lock, cc_slots, cc_sent, cc_calls, cc_logins>>

\* _get_client: with self._lock (console clients; the API clients have no
\* lock)
EnterGetClient(c) ==
    /\ cc_op[c].pc = "get_client"
    /\ CanRun(c)
    /\ IF IsConsole
         THEN /\ cc_lock = 0
              /\ cc_lock' = c
         ELSE cc_lock' = cc_lock
    /\ cc_op' = Goto(c, "client_check")
    /\ cc_running' = Continue(c)
    /\ UNCHANGED <<klass, cc_access_token, cc_csrf_token, cc_client, cc_closed,
                   cc_headers, cc_slots, cc_sent, cc_calls, cc_logins>>

\* if self._client is None or self._client.is_closed:
CheckClient(c) ==
    /\ cc_op[c].pc = "client_check"
    /\ CanRun(c)
    /\ cc_op' = [cc_op EXCEPT
                    ![c].pc = "client_create",
                    ![c].create = (cc_client = 0 \/ cc_client \in cc_closed)]
    /\ cc_running' = Continue(c)
    /\ UNCHANGED <<klass, cc_access_token, cc_csrf_token, cc_client, cc_closed,
                   cc_headers, cc_lock, cc_slots, cc_sent, cc_calls, cc_logins>>

\* self._client = httpx.Client(...): a console client's handle starts with
\* the Authorization header of the token held at that moment
CreateClient(c) ==
    /\ cc_op[c].pc = "client_create"
    /\ CanRun(c)
    /\ IF cc_op[c].create
         THEN /\ cc_headers' = Append(cc_headers, cc_access_token)
              /\ cc_client' = Len(cc_headers) + 1
         ELSE UNCHANGED <<cc_headers, cc_client>>
    /\ cc_op' = Goto(c, "client_return")
    /\ cc_running' = Continue(c)
    /\ UNCHANGED <<klass, cc_access_token, cc_csrf_token, cc_closed,
                   cc_lock, cc_slots, cc_sent, cc_calls, cc_logins>>

\* return self._client, leaving the with block
ReturnClient(c) ==
    /\ cc_op[c].pc = "client_return"
    /\ CanRun(c)
    /\ cc_lock' = IF cc_lock = c THEN 0 ELSE cc_lock
    /\ cc_op' = [cc_op EXCEPT
                    ![c].client = cc_client,
                    ![c].pc = IF cc_op[c].call = "request" /\ IsConsole
                                THEN "csrf" ELSE "send"]
    /\ cc_running' = Continue(c)
    /\ UNCHANGED <<klass, cc_access_token, cc_csrf_token, cc_client, cc_closed,
                   cc_headers, cc_slots, cc_sent, cc_calls, cc_logins>>

\* if self._csrf_token: headers["X-CSRF-Token"] = self._csrf_token
AddCsrfHeader(c) ==
    /\ cc_op[c].pc = "csrf"
    /\ CanRun(c)
    /\ cc_op' = [cc_op EXCEPT
                    ![c].csrf = cc_csrf_token,
                    ![c].pc = IF IsAsync THEN "semaphore" ELSE "send"]
    /\ cc_running' = Continue(c)
    /\ UNCHANGED <<klass, cc_access_token, cc_csrf_token, cc_client, cc_closed,
                   cc_headers, cc_lock, cc_slots, cc_sent, cc_calls, cc_logins>>

\* async with semaphore: a free slot is taken at once, otherwise the
\* coroutine is suspended until a slot is free
AcquireSlot(c) ==
    /\ cc_op[c].pc \in {"semaphore", "slot_wait"}
    /\ CanRun(c)
    /\ IF cc_slots > 0
         THEN /\ cc_slots' = cc_slots - 1
              /\ cc_op' = [cc_op EXCEPT ![c].pc = "send", ![c].slot = TRUE]
              /\ cc_running' = Continue(c)
         ELSE /\ cc_op[c].pc = "semaphore"
              /\ cc_slots' = cc_slots
              /\ cc_op' = Goto(c, "slot_wait")
              /\ cc_running' = 0
    /\ UNCHANGED <<klass, cc_access_token, cc_csrf_token, cc_client, cc_closed,
                   cc_headers, cc_lock, cc_sent, cc_calls, cc_logins>>

\* client.request(...) / client.post(...): the handle merges its own
\* headers into the request when the request is built; a closed handle
\* (or None) raises instead
SendHttp(c) ==
    /\ cc_op[c].pc = "send"
    /\ CanRun(c)
    /\ IF cc_op[c].client = 0 \/ cc_op[c].client \in cc_closed
         THEN /\ cc_op' = Leave(c)
              /\ cc_slots' = IF cc_op[c].slot THEN cc_slots + 1 ELSE cc_slots
              /\ cc_sent' = cc_sent
         ELSE /\ cc_op' = Goto(c, "response")
              /\ cc_slots' = cc_slots
              /\ cc_sent' = cc_sent \cup
                    {[call |-> cc_op[c].call,
                      handle |-> cc_op[c].client,
                      bearer |-> cc_headers[cc_op[c].client],
                      csrf |-> cc_op[c].csrf]}
    /\ cc_running' = 0
    /\ UNCHANGED <<klass, cc_access_token, cc_csrf_token, cc_client, cc_closed,
                   cc_headers, cc_lock, cc_calls, cc_logins>>

\* the response of a request arrives: _request returns or raises, leaving
\* async with semaphore
RequestDone(c) ==
    /\ cc_op[c].pc = "response"
    /\ cc_op[c].call = "request"
    /\ CanRun(c)
    /\ cc_op' = Leave(c)
    /\ cc_slots' = IF cc_op[c].slot THEN cc_slots + 1 ELSE cc_slots
    /\ cc_running' = 0
    /\ UNCHANGED <<klass, cc_access_token, cc_csrf_token, cc_client, cc_closed,
                   cc_headers, cc_lock, cc_sent, cc_calls, cc_logins>>

\* login: the response arrives; raise_for_status raises on an error status,
\* otherwise self._access_token = ...
StoreAccessToken(c, ok) ==
    /\ cc_op[c].pc = "response"
    /\ cc_op[c].call = "login"
    /\ CanRun(c)
    /\ IF ok
         THEN /\ cc_logins' = cc_logins + 1
              /\ cc_access_token' = cc_logins + 1
              /\ cc_op' = [cc_op EXCEPT ![c].pc = "store_csrf",
                                        ![c].csrf = cc_logins + 1]
              /\ cc_running' = Continue(c)
         ELSE /\ UNCHANGED <<cc_logins, cc_access_token>>
              /\ cc_op' = Leave(c)
              /\ cc_running' = 0
    /\ UNCHANGED <<klass, cc_csrf_token, cc_client, cc_closed,
                   cc_headers, cc_lock, cc_slots, cc_sent, cc_calls>>

\* self._csrf_token = response.cookies.get("csrf_token")
StoreCsrfToken(c) ==
    /\ cc_op[c].pc = "store_csrf"
    /\ CanRun(c)
    /\ cc_csrf_token' = cc_op[c].csrf
    /\ cc_op' = Goto(c, "update_header")
    /\ cc_running' = Continue(c)
    /\ UNCHANGED <<klass, cc_access_token, cc_client, cc_closed,
                   cc_headers, cc_lock, cc_slots, cc_sent, cc_calls, cc_logins>>

\* _update_auth_header: under self._lock,
\* if self._client and self._access_token: set the Authorization header
UpdateAuthHeader(c) ==
    /\ cc_op[c].pc = "update_header"
    /\ CanRun(c)
    /\ cc_lock = 0
    /\ cc_headers' = IF cc_client # 0 /\ cc_access_token # 0
                       THEN [cc_headers EXCEPT ![cc_client] = cc_access_token]
                       ELSE cc_headers
    /\ cc_op' = Leave(c)
    /\ cc_running' = 0
    /\ UNCHANGED <<klass, cc_access_token, cc_csrf_token, cc_client, cc_closed,
                   cc_lock, cc_slots, cc_sent, cc_calls, cc_logins>>

\* close: if self._client and not self._client.is_closed:
CloseCheck(c) ==
    /\ cc_op[c].pc = "close_check"
    /\ CanRun(c)
    /\ IF cc_client # 0 /\ cc_client \notin cc_closed
         THEN /\ cc_op' = Goto(c, "close_handle")
              /\ cc_running' = Continue(c)
         ELSE /\ cc_op' = Leave(c)
              /\ cc_running' = 0
    /\ UNCHANGED <<klass, cc_access_token, cc_csrf_token, cc_client, cc_closed,
                   cc_headers, cc_lock, cc_slots, cc_sent, cc_calls, cc_logins>>

\* self._client.close() / await self._client.aclose(): the handle is
\* marked closed before its connections are shut down
CloseTransport(c) ==
    /\ cc_op[c].pc = "close_handle"
    /\ CanRun(c)
    /\ IF cc_client = 0
         THEN /\ cc_op' = Leave(c)
              /\ cc_closed' = cc_closed
         ELSE /\ cc_op' = Goto(c, "close_clear")
              /\ cc_closed' = cc_closed \cup {cc_client}
    /\ cc_running' = 0
    /\ UNCHANGED <<klass, cc_access_token, cc_csrf_token, cc_client,
                   cc_headers, cc_lock, cc_slots, cc_sent, cc_calls, cc_logins>>

\* self._client = None
ClearClient(c) ==
    /\ cc_op[c].pc = "close_clear"
    /\ CanRun(c)
    /\ cc_client' = 0
    /\ cc_op' = Leave(c)
    /\ cc_running' = 0
    /\ UNCHANGED <<klass, cc_access_token, cc_csrf_token, cc_closed,
                   cc_headers, cc_lock, cc_slots, cc_sent, cc_calls, cc_logins>>

\* a component that a specification does not construct: its variables
\* hold None
SharedIdle ==
    /\ klass = None
    /\ cc_access_token = None
    /\ cc_csrf_token = None
    /\ cc_client = None
    /\ cc_closed = None
    /\ cc_headers = None
    /\ cc_lock = None
    /\ cc_slots = None
    /\ cc_op = None
    /\ cc_running = None
    /\ cc_sent = None
    /\ cc_calls = None
    /\ cc_logins = None

\* ------------- the pre-fetch of latest versions (cli/plugin_cmd.py)
LookupOutcomes == {"found", "no_versions", "http_error"}

FetchInit ==
    /\ fetch = "none"
    /\ lookups = <<>>

\* the marketplace lookups sent and not yet answered
LookupsInFlight == {i \in 1..Len(lookups) : lookups[i].pc = "in_flight"}

\* latest_tasks = [get_latest_id(p["name"]) for p in plugins_to_upgrade]:
\* one coroutine per plugin, handed to gather together
StartPrefetch(n, valid) ==
    /\ fetch = "none"
    /\ batch.phase = "none"
    /\ access_token # None
    /\ n > 1
    /\ lookups' = [i \in 1..n |->
                     [pc |-> "new", valid |-> valid[i], latest |-> FALSE]]
    /\ fetch' = "running"

\* _get_latest_plugin_version_async up to its request: a name without "/"
\* returns None, otherwise the coroutine opens a client of its own and
\* awaits client.get
StartLookup(i) ==
    /\ fetch = "running"
    /\ i \in 1..Len(lookups)
    /\ lookups[i].pc = "new"
    /\ \A j \in 1..(i - 1) : lookups[j].pc # "new"
    /\ lookups' = [lookups EXCEPT
                     ![i].pc = IF lookups[i].valid THEN "in_flight" ELSE "done"]
    /\ fetch' = fetch

\* the answer of the marketplace: the identifier of the first version, or
\* None for an empty answer and for every exception
LookupResponse(i, outcome) ==
    /\ i \in LookupsInFlight
    /\ lookups' = [lookups EXCEPT ![i].pc = "done",
                                  ![i].latest = (outcome = "found")]
    /\ fetch' = fetch

\* latest_results = await asyncio.gather(*latest_tasks); latest_map = ...
GatherLatest ==
    /\ fetch = "running"
    /\ \A i \in 1..Len(lookups) : lookups[i].pc = "done"
    /\ fetch' = "gathered"
    /\ lookups' = lookups

\* tasks = [upgrade_single(plugin) ...]: each coroutine reads its latest
\* identifier from latest_map
UpgradeAfterPrefetch ==
    /\ fetch = "gathered"
    /\ StartBatch("upgrade", Len(lookups),
                  [i \in 1..Len(lookups) |->
                      [latest |-> lookups[i].latest, inst |-> TRUE]])

FetchIdle ==
    /\ fetch = None
    /\ lookups = None

\* ---------- two responses parsed through one SSEParser (sse_parser.py,
\* client/async_client.py)
\* the frame of a generator that has not started: its locals and response
NewFrame(response) ==
    [pc |-> "idle", mode |-> "sync", event_type |-> <<>>, event_id |-> <<>>,
     data_lines |-> <<>>, raised |-> NoExc, frame |-> response,
     lines |-> <<>>, emitted |-> <<>>, data_at |-> <<>>]

\* the frame of the running generator
Current ==
    [pc |-> pc, mode |-> mode, event_type |-> event_type,
     event_id |-> event_id, data_lines |-> data_lines, raised |-> raised,
     frame |-> frame, lines |-> lines, emitted |-> emitted,
     data_at |-> data_at]

\* a switch that leaves the working values where they are, as attributes
\* of the parser would be
Switch_SharedWorkingValues ==
    /\ cur' = 3 - cur
    /\ other' = Current
    /\ pc' = other.pc
    /\ mode' = other.mode
    /\ raised' = other.raised
    /\ frame' = other.frame
    /\ lines' = other.lines
    /\ emitted' = other.emitted
    /\ UNCHANGED <<event_type, event_id, data_lines, data_at>>
    /\ UNCHANGED <<last_event_id, reconnect_attempts, fails, parses,
                   event_timeout, overdue>>

\* the other generator runs on: event_type, event_id and data_lines are
\* locals of parse_sync / parse_async, kept in the frame of each generator;
\* _last_event_id and _reconnect_attempts are attributes of the one parser
Switch ==
    /\ cur' = 3 - cur
    /\ other' = Current
    /\ pc' = other.pc
    /\ mode' = other.mode
    /\ raised' = other.raised
    /\ frame' = other.frame
    /\ lines' = other.lines
    /\ emitted' = other.emitted
    /\ event_type' = other.event_type
    /\ event_id' = other.event_id
    /\ data_lines' = other.data_lines
    /\ data_at' = other.data_at
    /\ UNCHANGED <<last_event_id, reconnect_attempts, fails, parses,
                   event_timeout, overdue>>

StreamIdle ==
    /\ cur = None
    /\ other = None

LoaderIdle ==
    /\ instances = None
    /\ loader_lock = None
    /\ created = None
    /\ resets = None
    /\ caller = None
    /\ obtained = None

ConcIdle == LoaderIdle /\ SharedIdle /\ FetchIdle /\ StreamIdle

\* no request made yet
ApiIdle ==
    /\ status_code = 0
    /\ error_text = <<>>
    /\ response_data = NoData
    /\ api_error = NoApiError

ParserIdle ==
    /\ ParserInit
    /\ event_timeout = EVENT_TIMEOUT
    /\ frame = <<>>

ClientIdle ==
    /\ ClientInit
    /\ max_concurrency = 1

LoginResponses == {"http_error", "no_token", "token_only", "token_csrf"}
ItemInputs == [latest : BOOLEAN, inst : BOOLEAN]

InitBatch == ParserIdle /\ ClientInit /\ ApiIdle /\ ConcIdle

\* ------------------------------------------------- responses to parse
Blank == <<>>
EventLine(k) == <<W("event"), Colon, Space, W(k)>>
IdLine(x) == <<W("id"), Colon, Space, W(x)>>
DataLine(text) == <<W("data"), Colon, Space>> \o text
RetryLine == <<W("retry"), Colon, Space, W("5")>>

\* the payload the service sends for a kind: its member "event" (or none)
\* and the members of the bundle of that kind
BundleFor(k) ==
    CASE k \in {"message", "message_replace", "agent_message"} -> "chat"
      [] k = "message_end" -> "end"
      [] k = "message_file" -> "file"
      [] k = "agent_thought" -> "thought"
      [] k \in {"tts_message", "tts_message_end"} -> "tts"
      [] k \in {"error", "ping"} -> "none"
      [] OTHER -> "workflow"

Object(ev, b) ==
    <<LB>> \o (IF ev = Absent THEN <<>> ELSE <<EvM(ev)>>)
           \o (IF b = "none" THEN <<>> ELSE <<FM(b)>>) \o <<RB>>

\* the lines a response may hand out when it is not scripted
FreeLines ==
    {Blank, EventLine(UnknownKind), IdLine("a"), RetryLine,
     DataLine(Object(Absent, "chat")),
     DataLine(Object("message_end", "end")), DataLine(<<Junk>>)}

Modes == {"sync", "async"}

DoStartParse == \E m \in Modes : StartParse(m)

\* the response hands out one more line
ReadFree ==
    /\ Len(lines) < MaxLines
    /\ \E raw \in FreeLines : ProcessLine(raw)
    /\ frame' = frame

InitParser == ParserIdle /\ ClientIdle /\ ApiIdle /\ ConcIdle

NextParser ==
    \/ DoStartParse
    \/ ReadFree
    \/ Resume
    \/ EndOfSource
    \/ ReadError
    \/ Reset

SpecParser == InitParser /\ [][NextParser]_vars

\* ----------------------------------------------- one scripted frame
EventOptions == KnownKinds \cup {UnknownKind, Absent}
EventMembers == KnownKinds \cup {UnknownKind, ListValue, Absent}

Payloads ==
    {Object(ev, b) : ev \in EventMembers, b \in Bundles \cup {"none"}}
        \cup {<<>>, <<Junk>>, <<Num>>, <<LB, FM("chat")>>}

\* the ways to cut a text into n consecutive pieces
RECURSIVE Cuts(_, _)
Cuts(text, n) ==
    IF n = 1 THEN {<<text>>}
    ELSE UNION {{<<SubSeq(text, 1, c)>> \o rest :
                    rest \in Cuts(SubSeq(text, c + 1, Len(text)), n - 1)} :
                c \in 0..Len(text)}

RECURSIVE DataLines(_)
DataLines(pieces) ==
    IF pieces = <<>> THEN <<>>
    ELSE <<DataLine(Head(pieces))>> \o DataLines(Tail(pieces))

\* an optional event: line, one or more data: lines, an empty line
Frames ==
    {(IF e = Absent THEN <<>> ELSE <<EventLine(e)>>)
        \o DataLines(pieces) \o <<Blank>> :
     e \in EventOptions,
     pieces \in UNION {Cuts(p, n) : p \in Payloads, n \in 1..MaxDataLines}}

InitFrame ==
    /\ ParserInit
    /\ event_timeout = EVENT_TIMEOUT
    /\ frame \in Frames
    /\ ClientIdle
    /\ ApiIdle
    /\ ConcIdle

ParseFrame ==
    /\ pc = "idle"
    /\ \E m \in Modes : StartParse(m)

\* the scripted response hands out its next line
ReadFrame ==
    /\ frame # <<>>
    /\ ProcessLine(Head(frame))
    /\ frame' = Tail(frame)

EndOfFrame ==
    /\ frame = <<>>
    /\ EndOfSource

NextFrame ==
    \/ ParseFrame
    \/ ReadFrame
    \/ Resume
    \/ EndOfFrame

SpecFrame == InitFrame /\ [][NextFrame]_vars

\* ------------------------------------------------- one batch call
DoLogin == \E resp \in LoginResponses : Login(resp)

DoStartBatch ==
    /\ batch.phase = "none"
    /\ \E kind \in BatchKinds, n \in 0..MaxItems :
        \E inp \in [1..n -> ItemInputs] :
            /\ kind \notin UpgradeKinds =>
                    \A i \in 1..n : inp[i].latest /\ inp[i].inst
            /\ StartBatch(kind, n, inp)

DoStartTask == \E i \in 1..batch.n : StartTask(i)

DoComplete ==
    \E i \in InFlight, outcome \in HttpOutcomes : Complete(i, outcome)

NextBatch ==
    \/ DoLogin
    \/ Close
    \/ DoStartBatch
    \/ DoStartTask
    \/ DoComplete
    \/ GatherReturn

SpecBatch == InitBatch /\ [][NextBatch]_vars

\* ------------------------------------------- one error response
Statuses == {200, 400, 401, 403, 404, 429, 500, 503}
Messages == {Absent, "Bad request", "Quota exhausted", DictValue, NullValue}
Codes == {Absent, "quota_exceeded", "invalid_param"}
RetryAfters == {Absent, "30"}
ResponseDatas ==
    {NoData} \cup {Dict(m, c, r) : m \in Messages, c \in Codes, r \in RetryAfters}

InitError ==
    /\ ParserIdle
    /\ ClientIdle
    /\ status_code \in Statuses
    /\ error_text = <<>>
    /\ response_data \in ResponseDatas
    /\ api_error = NoApiError
    /\ ConcIdle

NextError == HandleError

SpecError == InitError /\ [][NextError]_vars

\* ------------------------------------------- one streaming request
ErrorBodies ==
    {<<Junk>>, <<Num>>, <<LB, RB>>,
     <<LB, MsgM("Bad request"), CodeM("invalid_param"), RB>>,
     <<LB, MsgM("Quota exhausted"), RB>>,
     <<LB, MsgM("Bad request"), Space, RetryM("30"), RB>>,
     <<LB, MsgM(DictValue), RB>>}

BodiesFor(st) == IF st >= 400 THEN ErrorBodies ELSE {<<>>}

DoOpenStream == \E st \in Statuses : \E body \in BodiesFor(st) : OpenStream(st, body)

DoBeginParse == \E m \in Modes : BeginParse(m)

InitStream == ParserIdle /\ ClientIdle /\ ApiIdle /\ ConcIdle

NextStream ==
    \/ DoOpenStream
    \/ RaiseForStatus
    \/ DoBeginParse
    \/ ReadFree
    \/ Resume
    \/ EndOfSource
    \/ ReadError

SpecStream == InitStream /\ [][NextStream]_vars

\* ------------------------------------- one response that may stall
SourceExceptions == {"TimeoutError", "ReadTimeout"}

BeginTimed ==
    /\ parses = 0
    /\ \E m \in Modes : StartParse(m)

DoSourceTimeout == \E exc \in SourceExceptions : SourceTimeout(exc)

InitTimeout ==
    /\ ParserInit
    /\ frame = <<>>
    /\ ClientIdle
    /\ ApiIdle
    /\ ConcIdle

NextTimeout ==
    \/ BeginTimed
    \/ ReadFree
    \/ Resume
    \/ EndOfSource
    \/ Tick
    \/ DoSourceTimeout

SpecTimeout == InitTimeout /\ [][NextTimeout]_vars

\* ----------------------------- one parallel batch, run to its end
\* the client after login() has returned
Authenticated ==
    /\ max_concurrency \in 1..MaxConcurrency
    /\ access_token = "token"
    /\ csrf_token = "csrf"
    /\ client = "open"
    /\ semaphore = NoSemaphore
    /\ batch = NoBatch
    /\ task = <<>>
    /\ results = <<>>
    /\ holder = "authenticated"
    /\ last_login = "token_csrf"

LoggedIn == Authenticated /\ ended = NoLog

\* every plugin of the server's installed list carries its installation
\* id; whether a latest version was found varies per plugin
StartParallel ==
    /\ batch.phase = "none"
    /\ \E kind \in AppKinds \cup {"upgrade"}, n \in 0..MaxItems :
        \E inp \in [1..n -> ItemInputs] :
            /\ \A i \in 1..n : inp[i].inst
            /\ kind \notin UpgradeKinds => \A i \in 1..n : inp[i].latest
            /\ StartBatch(kind, n, inp)

InitLive == ParserIdle /\ ApiIdle /\ LoggedIn /\ ConcIdle

NextLive ==
    \/ StartParallel
    \/ DoStartTask
    \/ DoComplete
    \/ GatherReturn

\* the event loop runs every coroutine that can run, and every request
\* is answered
SpecLive ==
    /\ InitLive
    /\ [][NextLive]_vars
    /\ WF_vars(DoStartTask)
    /\ WF_vars(DoComplete)
    /\ WF_vars(GatherReturn)

\* ------------------------------- threads constructing and resetting loaders
notLoader == <<parserVars, batchVars, apiVars, clientVars, fetchVars,
               streamVars>>

DoConstruct ==
    /\ \E th \in Threads, type \in ConfigTypes : Construct(th, type)
    /\ UNCHANGED notLoader

DoAcquire ==
    /\ \E th \in Threads : Acquire(th)
    /\ UNCHANGED notLoader

DoCheckInstance ==
    /\ \E th \in Threads : CheckInstance(th)
    /\ UNCHANGED notLoader

DoCreateInstance ==
    /\ \E th \in Threads : CreateInstance(th)
    /\ UNCHANGED notLoader

DoReturnInstance ==
    /\ \E th \in Threads : ReturnInstance(th)
    /\ UNCHANGED notLoader

DoResetLoader ==
    /\ ResetLoader
    /\ UNCHANGED notLoader

InitLoader ==
    /\ ParserIdle
    /\ ClientIdle
    /\ ApiIdle
    /\ LoaderInit
    /\ SharedIdle
    /\ FetchIdle
    /\ StreamIdle

NextLoader ==
    \/ DoConstruct
    \/ DoAcquire
    \/ DoCheckInstance
    \/ DoCreateInstance
    \/ DoReturnInstance
    \/ DoResetLoader

SpecLoader == InitLoader /\ [][NextLoader]_vars

\* ------------------------------------ concurrent callers of one client
notClient == <<parserVars, batchVars, apiVars, loaderVars, fetchVars,
               streamVars>>

DoBeginCall ==
    /\ \E c \in Callers, call \in {"request", "login", "close"} :
            BeginCall(c, call)
    /\ UNCHANGED notClient

DoCheckLoggedIn ==
    /\ \E c \in Callers : CheckLoggedIn(c)
    /\ UNCHANGED notClient

DoEnterGetClient ==
    /\ \E c \in Callers : EnterGetClient(c)
    /\ UNCHANGED notClient

DoCheckClient ==
    /\ \E c \in Callers : CheckClient(c)
    /\ UNCHANGED notClient

DoCreateClient ==
    /\ \E c \in Callers : CreateClient(c)
    /\ UNCHANGED notClient

DoReturnClient ==
    /\ \E c \in Callers : ReturnClient(c)
    /\ UNCHANGED notClient

DoAddCsrfHeader ==
    /\ \E c \in Callers : AddCsrfHeader(c)
    /\ UNCHANGED notClient

DoAcquireSlot ==
    /\ \E c \in Callers : AcquireSlot(c)
    /\ UNCHANGED notClient

DoSendHttp ==
    /\ \E c \in Callers : SendHttp(c)
    /\ UNCHANGED notClient

DoRequestDone ==
    /\ \E c \in Callers : RequestDone(c)
    /\ UNCHANGED notClient

DoStoreAccessToken ==
    /\ \E c \in Callers, ok \in BOOLEAN : StoreAccessToken(c, ok)
    /\ UNCHANGED notClient

DoStoreCsrfToken ==
    /\ \E c \in Callers : StoreCsrfToken(c)
    /\ UNCHANGED notClient

DoUpdateAuthHeader ==
    /\ \E c \in Callers : UpdateAuthHeader(c)
    /\ UNCHANGED notClient

DoCloseCheck ==
    /\ \E c \in Callers : CloseCheck(c)
    /\ UNCHANGED notClient

DoCloseTransport ==
    /\ \E c \in Callers : CloseTransport(c)
    /\ UNCHANGED notClient

DoClearClient ==
    /\ \E c \in Callers : ClearClient(c)
    /\ UNCHANGED notClient

InitShared ==
    /\ ParserIdle
    /\ ClientInit
    /\ ApiIdle
    /\ LoaderIdle
    /\ FetchIdle
    /\ StreamIdle
    /\ klass \in ClientClasses
    /\ SharedInit

NextShared ==
    \/ DoBeginCall
    \/ DoCheckLoggedIn
    \/ DoEnterGetClient
    \/ DoCheckClient
    \/ DoCreateClient
    \/ DoReturnClient
    \/ DoAddCsrfHeader
    \/ DoAcquireSlot
    \/ DoSendHttp
    \/ DoRequestDone
    \/ DoStoreAccessToken
    \/ DoStoreCsrfToken
    \/ DoUpdateAuthHeader
    \/ DoCloseCheck
    \/ DoCloseTransport
    \/ DoClearClient

SpecShared == InitShared /\ [][NextShared]_vars

\* ------------------------ a parallel upgrade with its pre-fetch
notFetch == <<parserVars, batchVars, apiVars, loaderVars, clientVars,
              streamVars>>

DoStartPrefetch ==
    /\ \E n \in 2..MaxItems : \E valid \in [1..n -> BOOLEAN] :
            StartPrefetch(n, valid)
    /\ UNCHANGED notFetch

DoStartLookup ==
    /\ \E i \in 1..Len(lookups) : StartLookup(i)
    /\ UNCHANGED notFetch

DoLookupResponse ==
    /\ \E i \in LookupsInFlight, outcome \in LookupOutcomes :
            LookupResponse(i, outcome)
    /\ UNCHANGED notFetch

DoGatherLatest ==
    /\ GatherLatest
    /\ UNCHANGED notFetch

InitPrefetch ==
    /\ ParserIdle
    /\ ApiIdle
    /\ LoggedIn
    /\ LoaderIdle
    /\ SharedIdle
    /\ FetchInit
    /\ StreamIdle

NextPrefetch ==
    \/ DoStartPrefetch
    \/ DoStartLookup
    \/ DoLookupResponse
    \/ DoGatherLatest
    \/ UpgradeAfterPrefetch
    \/ DoStartTask
    \/ DoComplete
    \/ GatherReturn

SpecPrefetch == InitPrefetch /\ [][NextPrefetch]_vars

\* ------------------- one parallel batch with the order of endings logged
InitOrder ==
    /\ ParserIdle
    /\ ApiIdle
    /\ Authenticated
    /\ ended = [on |-> TRUE, order |-> <<>>]
    /\ ConcIdle

NextOrder ==
    \/ StartParallel
    \/ DoStartTask
    \/ DoComplete
    \/ GatherReturn

SpecOrder == InitOrder /\ [][NextOrder]_vars

\* ------------------- two streaming calls of one client, interleaved
ChatData == DataLine(Object(Absent, "chat"))
EndData == DataLine(Object(Absent, "end"))

\* the response of the first call: chat messages, ids "a"
FirstResponses ==
    {<<IdLine("a"), ChatData, Blank, ChatData, Blank>>,
     <<IdLine("a"), ChatData>>,
     <<ChatData, Blank>>,
     <<EventLine("message"), IdLine("a"), Blank, ChatData, Blank>>}

\* the response of the second call: message_end events, ids "b"
SecondResponses ==
    {<<IdLine("b"), EventLine("message_end"), EndData, Blank,
       EventLine("message_end"), EndData, Blank>>,
     <<EventLine("message_end"), EndData, IdLine("b"), Blank>>,
     <<EventLine("message_end"), EndData, DataLine(<<Junk>>), Blank>>,
     <<IdLine("b"), EventLine("message_end"), EndData>>}

notStream == <<batchVars, apiVars, loaderVars, clientVars, fetchVars>>

DoSwitch ==
    /\ Switch
    /\ UNCHANGED notStream

InitInterleaved ==
    /\ ParserInit
    /\ event_timeout = EVENT_TIMEOUT
    /\ frame \in FirstResponses
    /\ ClientIdle
    /\ ApiIdle
    /\ LoaderIdle
    /\ SharedIdle
    /\ FetchIdle
    /\ cur = 1
    /\ other \in {NewFrame(r) : r \in SecondResponses}

NextInterleaved ==
    \/ ParseFrame
    \/ ReadFrame
    \/ Resume
    \/ EndOfFrame
    \/ ReadError
    \/ DoSwitch

SpecInterleaved == InitInterleaved /\ [][NextInterleaved]_vars

ItemOutcome(j) ==
    OpResult(batch.kind,
             IF task[j].http = None THEN NotLoggedIn
             ELSE RequestResult(task[j].http))

\* C2: a parallel app batch over K >= 0 items never raises for a per-item
\* failure; it returns exactly K tuples, the j-th for the j-th item, and
\* the tuple of item j carries an error exactly when the operation of item
\* j failed, whatever the other items did.
C2_BatchOutcome ==
    /\ batch.phase # "raised"
    /\ batch.phase = "returned" /\ batch.kind \in AppKinds =>
        /\ Len(results) = batch.n
        /\ \A j \in 1..batch.n :
            /\ results[j].set
            /\ results[j].key = j
            /\ results[j].error # None <=> ItemOutcome(j).raises
            /\ ~ItemOutcome(j).raises => results[j].value = ItemOutcome(j).value

\* a returned batch in which one item failed and another succeeded
C2_Witness ==
    /\ batch.phase = "returned"
    /\ batch.kind \in AppKinds
    /\ \E j, k \in 1..batch.n :
        /\ results[j].error # None
        /\ results[k].error = None
        /\ results[k].value \notin {None, "False"}

\* a success value is populated when it is neither None nor the flag False
Populated(v) == v \notin {None, "False"}

Range(f) == {f[i] : i \in DOMAIN f}

\* what line i of the response is, by the framing rules
FieldAt(i) == ParseEventLine(Strip(lines[i]))
IsBlank(i) == Strip(lines[i]) = <<>>
IsData(i) == ~IsBlank(i) /\ TextOf(FieldAt(i).field) = "data"
IsEventLine(i) == ~IsBlank(i) /\ TextOf(FieldAt(i).field) = "event"

\* the raw data of the lines at the positions ps, joined by newlines
RECURSIVE ValuesAt(_)
ValuesAt(ps) ==
    IF ps = <<>> THEN <<>>
    ELSE <<FieldAt(Head(ps)).value>> \o ValuesAt(Tail(ps))

RawData(ps) == Join(ValuesAt(ps), NL)

\* the document the raw data decodes to
Decoded(text) == IF text = <<>> THEN EmptyObject ELSE JsonLoads(text)

\* the frame is read to its end: an event: line naming e (none when e is
\* Absent), data: lines only, one empty line
FrameRead(e) ==
    LET first == IF e = Absent THEN 1 ELSE 2
    IN  /\ frame = <<>>
        /\ pc \in {"yielded", "done", "raised"}
        /\ Len(lines) > first
        /\ e # Absent => lines[1] = EventLine(e)
        /\ \A i \in first..(Len(lines) - 1) : IsData(i)
        /\ IsBlank(Len(lines))

FrameDoc(e) ==
    RawData([i \in 1..(Len(lines) - (IF e = Absent THEN 1 ELSE 2)) |->
                i + (IF e = Absent THEN 0 ELSE 1)])

\* the payload is what the service sends for kind k
WellFormedFor(k, doc) ==
    /\ doc.type = "object"
    /\ FieldsOf(BundleFor(k)) \subseteq doc.fields
    /\ doc.event \in {Absent, k}

\* C4: for each of the sixteen known kinds, a well-formed frame (an event:
\* line naming the kind, one or more data: lines holding a payload of that
\* kind, an empty line) makes the parser emit exactly one event, and the
\* discriminator of that event is the kind the event: line names.
C4_OneTypedEvent ==
    \A k \in KnownKinds :
        FrameRead(k) /\ WellFormedFor(k, Decoded(FrameDoc(k))) =>
            /\ raised = NoExc
            /\ Len(emitted) = 1
            /\ emitted[1].ev.event = k
            /\ DefaultEvent(emitted[1].ev.cls) = k

\* a frame of a kind other than message, its payload on two data: lines
C4_Witness ==
    /\ FrameRead("workflow_finished")
    /\ Len(lines) = 4
    /\ WellFormedFor("workflow_finished", Decoded(FrameDoc("workflow_finished")))
    /\ Len(emitted) = 1

\* C5: a frame with no event: line whose payload names one of the sixteen
\* known kinds in its member "event" yields the event of that kind.
C5_PayloadKind ==
    \A k \in KnownKinds :
        /\ FrameRead(Absent)
        /\ WellFormedFor(k, Decoded(FrameDoc(Absent)))
        /\ Decoded(FrameDoc(Absent)).event = k
        => /\ raised = NoExc
           /\ Len(emitted) = 1
           /\ DefaultEvent(emitted[1].ev.cls) = k

\* no data: line of the response names a known kind in a member "event"
NoKnownEventMember ==
    \A i \in 1..Len(lines) :
        \A j \in 1..Len(lines[i]) :
            lines[i][j].t = "ev" => lines[i][j].v \notin KnownKinds

NextBlank(i) ==
    IF \E j \in (i + 1)..Len(lines) : IsBlank(j)
    THEN CHOOSE j \in (i + 1)..Len(lines) :
            IsBlank(j) /\ \A h \in (i + 1)..(j - 1) : ~IsBlank(h)
    ELSE 0

EventsWith(i) == {k \in 1..Len(emitted) : i \in Range(emitted[k].from)}

\* C6: the events of one response are emitted in the order of their
\* delimiting empty lines, none lost, none twice, and each at the moment
\* its delimiter is read: every data line followed by an empty line is in
\* exactly one event, emitted at its first following empty line (unless
\* decoding failed there), and events are built from data lines only.
C6_InOrder ==
    /\ \A k \in 1..Len(emitted) :
        /\ emitted[k].from # <<>>
        /\ k > 1 => emitted[k - 1].at < emitted[k].at
        /\ \A i \in Range(emitted[k].from) :
            /\ IsData(i)
            /\ i < emitted[k].at
            /\ k > 1 => emitted[k - 1].at < i
    /\ \A i \in 1..Len(lines) :
        IsData(i) /\ NextBlank(i) # 0 =>
            \/ /\ Cardinality(EventsWith(i)) = 1
               /\ \A k \in EventsWith(i) : emitted[k].at = NextBlank(i)
            \/ /\ pc = "raised"
               /\ raised.exc = "StreamingError"
               /\ NextBlank(i) = Len(lines)
               /\ EventsWith(i) = {}

\* two events, the second one just emitted and the consumer not yet resumed
C6_Witness ==
    /\ pc = "yielded"
    /\ Len(emitted) = 2
    /\ emitted[2].at = Len(lines)

\* C7: when the line source ends with data lines accumulated and no empty
\* line after them, they are emitted as one final event, so every data
\* line received is in exactly one emitted event when the parse ends.
C7_FlushAtEnd ==
    pc \in {"flushed", "done"} =>
        /\ \A i \in 1..Len(lines) :
            IsData(i) => Cardinality(EventsWith(i)) = 1
        /\ \A i \in 1..Len(lines) :
            IsData(i) /\ NextBlank(i) = 0 =>
                \A k \in EventsWith(i) :
                    /\ k = Len(emitted)
                    /\ emitted[k].at = Len(lines) + 1

\* the response ended right after a data line and the event came out
C7_Witness ==
    /\ pc = "done"
    /\ lines # <<>>
    /\ IsData(Len(lines))
    /\ emitted # <<>>
    /\ emitted[Len(emitted)].at = Len(lines) + 1

\* C9: joined data that is not well-formed JSON raises a StreamingError
\* whose event_data is the newline-joined raw data of that event; no event
\* is built from such data, and once the failure is raised the invocation
\* emits nothing more and reads nothing more.
C9_ParseFailure ==
    /\ [](/\ \A k \in 1..Len(emitted) :
                Decoded(RawData(emitted[k].from)).type # "error"
          /\ pc = "raised" /\ raised.exc = "StreamingError" =>
                /\ raised.event_data = RawData(data_at)
                /\ Decoded(RawData(data_at)).type = "error"
                     <=> raised.msg = "Failed to parse event data")
    /\ [][pc = "raised" /\ parses' = parses =>
            pc' = "raised" /\ emitted' = emitted /\ lines' = lines]_vars

\* malformed data on two lines after an event that was emitted
C9_Witness ==
    /\ pc = "raised"
    /\ raised.exc = "StreamingError"
    /\ raised.msg = "Failed to parse event data"
    /\ Len(data_at) = 2
    /\ emitted # <<>>

\* C10: between parse invocations the reconnect counter equals the number
\* of read failures since the last successfully parsed event (0 after any
\* run of parsed events, 1 after a failure that follows a success, one more
\* for each further failure), and the connection-lost failure carries the
\* incremented count.
C10_ReconnectCounter ==
    /\ pc \in {"done", "raised"} => reconnect_attempts = fails
    /\ pc = "raised" /\ raised.exc = "StreamingConnectionError" /\ fails > 0 =>
            raised.reconnect_attempts = reconnect_attempts


\* the id: lines read for event k: those after the previous event
IsIdLine(i) == ~IsBlank(i) /\ TextOf(FieldAt(i).field) = "id"

IdLinesOf(k) ==
    {i \in ((IF k = 1 THEN 0 ELSE emitted[k - 1].at) + 1)..(emitted[k].at - 1) :
        IsIdLine(i)}

\* the id the last of them gives
IdOf(k) ==
    FieldAt(CHOOSE i \in IdLinesOf(k) : \A h \in IdLinesOf(k) : h <= i).value

\* C11: once an event that an id: line precedes has been yielded,
\* last_event_id is that id; last_event_id changes only to the id of the
\* event being completed or, by reset(), to none together with a reconnect
\* counter of 0, so it is kept through events that have no id: line.
C11_LastEventId ==
    /\ [](pc \in {"yielded", "flushed"} /\ IdLinesOf(Len(emitted)) # {} =>
            last_event_id = IdOf(Len(emitted)))
    /\ [][last_event_id' # last_event_id =>
            \/ /\ pc = "reading"
               /\ event_id # <<>>
               /\ last_event_id' = event_id
            \/ /\ pc \in {"idle", "done", "raised"}
               /\ last_event_id' = NoneText
               /\ reconnect_attempts' = 0]_vars


\* ---------------------------------------------------- upgrade claims
Count(seq, x) == Cardinality({k \in DOMAIN seq : seq[k] = x})

\* the response to the call `step` of a coroutine, None while there is none
Response(t, step) ==
    IF \E k \in 1..Len(t.resp) : t.sent[k] = step
    THEN t.resp[CHOOSE k \in 1..Len(t.resp) : t.sent[k] = step]
    ELSE None

Succeeded(t, step) == Response(t, step) \in {"ok", "empty"}
Failed(t, step) == Response(t, step) \in {"e404", "e500"}

C13_NoRequestAfterFailedUninstall ==
    batch.kind \in UpgradeKinds =>
        \A i \in 1..batch.n :
            Failed(task[i], "uninstall") =>
                /\ Count(task[i].sent, "install") = 0
                /\ Count(task[i].sent, "rollback") = 0
                /\ task[i].pc = "done" => task[i].result.value = "False"


\* ------------------------------------------------------- auth claims
\* the calls of the running batch that have begun
Begun == {i \in 1..batch.n : task[i].pc # "new"}

\* C14: on a console client, synchronous or asynchronous, that has never
\* completed a login, every request fails at once with the not-logged-in
\* error: nothing is sent and no slot of the semaphore is taken (the
\* semaphore is not even created).
C14_FailFastBeforeLogin ==
    holder = "never" =>
        /\ access_token = None
        /\ semaphore = NoSemaphore
        /\ \A i \in Begun :
            /\ task[i].pc = "done"
            /\ task[i].sent = <<>>
            /\ task[i].result.error = "RuntimeError"
            /\ ~Populated(task[i].result.value)

\* a call was made on a client whose only login attempt had failed
C14_Witness ==
    /\ holder = "never"
    /\ last_login = "no_token"
    /\ batch.kind \in {"sync_delete", "delete"}
    /\ batch.phase = "returned"
    /\ batch.n > 0
    /\ results[1].error = "RuntimeError"


\* C15: after close() on an authenticated client the access token and the
\* CSRF token are cleared, and until a new successful login every request
\* fails at once as not logged in and nothing is sent.
C15_CloseClearsTokens ==
    holder = "closed" =>
        /\ access_token = None
        /\ csrf_token = None
        /\ \A i \in Begun :
            /\ task[i].pc = "done"
            /\ task[i].sent = <<>>
            /\ task[i].result.error = "RuntimeError"

\* a step of login() that ended in a failure
FailedLoginStep ==
    /\ batch.phase = "none"
    /\ batch' = batch
    /\ client' = "open"
    /\ last_login' \in {"http_error", "no_token"}

\* C16: a login call that fails, by an HTTP error or by a response without
\* an access token, leaves the held access token and CSRF token as they
\* were, so an authenticated client stays authenticated with its tokens.
C16_FailedLoginKeepsTokens ==
    [][FailedLoginStep =>
        /\ access_token' = access_token
        /\ csrf_token' = csrf_token]_vars


\* ---------------------------------------------------- API error claims
TypedApiErrors ==
    {"AuthenticationError", "NotFoundError", "RateLimitError",
     "QuotaExceededError", "InvalidRequestError", "ServerError", "DifyAPIError"}

\* C17: in streaming mode, on an initial response with a status of 400 or
\* above, nothing of the body reaches the SSE parser and no event is
\* yielded, and what is raised is the typed API error made from the decoded
\* body: its message is the message of the body (the text of the body when
\* the body is no JSON).
C17_StreamErrorIsTyped ==
    status_code >= 400 =>
        /\ pc = "idle"
        /\ lines = <<>>
        /\ emitted = <<>>
        /\ api_error # NoApiError =>
            /\ api_error.exc \in TypedApiErrors
            /\ api_error.message = Get(response_data.message, "Unknown error")

\* C18: handle_error_response raises, for every status and every body, the
\* error its status selects: 401 AuthenticationError, 404 NotFoundError,
\* 429 RateLimitError with retry_after, 400 QuotaExceededError when the
\* code is quota_exceeded or the message contains "quota" and
\* InvalidRequestError otherwise, 500 and above ServerError with the
\* status, anything else DifyAPIError with the status and the code.
C18_ErrorByStatus ==
    api_error # NoApiError =>
        LET message == response_data.message
            code == Get(response_data.code, "")
        IN  CASE status_code = 401 -> api_error.exc = "AuthenticationError"
              [] status_code = 404 -> api_error.exc = "NotFoundError"
              [] status_code = 429 ->
                    /\ api_error.exc = "RateLimitError"
                    /\ api_error.retry_after = Get(response_data.retry_after, None)
              [] status_code = 400 ->
                    api_error.exc =
                        IF code = "quota_exceeded" \/ HasQuota(message)
                        THEN "QuotaExceededError" ELSE "InvalidRequestError"
              [] status_code >= 500 ->
                    /\ api_error.exc = "ServerError"
                    /\ api_error.status_code = status_code
              [] OTHER ->
                    /\ api_error.exc = "DifyAPIError"
                    /\ api_error.status_code = status_code
                    /\ api_error.error_code = code


\* C19: once the wait for the next line of a streaming response has passed
\* the configured event timeout, the parse fails with a StreamingTimeoutError
\* that carries the configured timeout, in the async and in the sync
\* parser: nothing else happens in the parse from then on.
C19_TimeoutRaises ==
    [][overdue /\ pc = "reading" =>
        /\ pc' = "raised"
        /\ raised'.exc = "StreamingTimeoutError"
        /\ raised'.timeout_seconds = event_timeout]_vars


\* C20: in a parallel batch in which every request is answered, every item
\* queued at the semaphore is admitted in the end and the batch call
\* returns; when it has returned nothing is in flight or queued and every
\* slot of the semaphore is free again.
C20_BatchTerminates ==
    /\ \A i \in 1..MaxItems : (i \in Waiting) ~> (i \in InFlight)
    /\ (batch.phase = "running") ~> (batch.phase = "returned")
    /\ [](batch.phase = "returned" =>
            /\ InFlight = {}
            /\ Waiting = {}
            /\ semaphore.made =>
                /\ semaphore.value = max_concurrency
                /\ semaphore.waiters = <<>>)

\* a batch of more items than slots has returned, one item failed and one
\* succeeded, and the slots are free
C20_Witness ==
    /\ batch.phase = "returned"
    /\ batch.n > max_concurrency
    /\ semaphore.made
    /\ semaphore.value = max_concurrency
    /\ \E i, k \in 1..batch.n :
        /\ results[i].error # None
        /\ task[i].sent # <<>>
        /\ results[k].error = None
        /\ task[k].sent # <<>>

\* C21: every construction of ConfigLoader for one config type between two
\* reset() calls returns the same loader object, whatever the number of
\* threads constructing at once; two config types never share a loader;
\* and a construction after reset() returns an object that no construction
\* before that reset() returned.
C21_SingletonPerType ==
    \A a, b \in obtained :
        /\ (a.type = b.type /\ a.after = b.after) => a.loader = b.loader
        /\ a.type # b.type => a.loader # b.loader
        /\ (a.type = b.type /\ a.after # b.after) => a.loader # b.loader

\* one thread is inside __new__ with its loader stored while two others
\* wait for the class lock to construct the same type; a loader of that
\* type was handed out before the last reset(), and the other type has
\* been constructed too
C21_Witness ==
    /\ resets >= 1
    /\ \E th \in Threads :
        /\ loader_lock = th
        /\ caller[th].pc = "stored"
        /\ caller[th].missing
        /\ \A o \in Threads \ {th} :
            /\ caller[o].pc = "new"
            /\ caller[o].type = caller[th].type
        /\ \E a, c \in obtained :
            /\ a.type = caller[th].type
            /\ a.after < resets
            /\ c.type # a.type

\* C22: every request a console client sends while callers share it with
\* a login carries the bearer token and the CSRF token of one and the
\* same login.
C22_OnePairPerRequest ==
    \A r \in cc_sent : r.call = "request" => r.bearer = r.csrf

\* C23: a client object constructs its transport handle at most once,
\* whatever the interleaving of requests, logins and close on it, and all
\* requests in flight on one client at one time use the same handle.
C23_OneHandle ==
    /\ Len(cc_headers) <= 1
    /\ \A a, b \in Callers :
            (cc_op[a].pc = "response" /\ cc_op[b].pc = "response")
                => cc_op[a].client = cc_op[b].client

\* the events yielded so far that an id: line precedes
WithId == {k \in 1..Len(emitted) : IdLinesOf(k) # {}}

AllAccepted(t) ==
    /\ Len(t.resp) = Len(t.sent)
    /\ \A k \in 1..Len(t.resp) : t.resp[k] \in {"ok", "empty"}

\* C25: in an upgrade, serial or parallel, a plugin whose latest version
\* was not found has no uninstall and no install sent for it and is
\* reported failed, and every other plugin whose requests the server
\* accepts is reported upgraded all the same.
C25_SkippedWithoutLatest ==
    batch.kind \in UpgradeKinds =>
        \A i \in 1..batch.n :
            /\ ~task[i].latest =>
                    /\ task[i].sent = <<>>
                    /\ task[i].pc = "done" =>
                            /\ task[i].result.value = "False"
                            /\ task[i].result.error = "Exception"
            /\ (task[i].latest /\ task[i].pc = "done" /\ AllAccepted(task[i])) =>
                    /\ task[i].result.value = "True"
                    /\ task[i].sent # <<>>

\* an upgrade has ended in which a plugin without a latest version stands
\* between two plugins that were upgraded
C25_Witness ==
    /\ batch.kind \in UpgradeKinds
    /\ \A i \in 1..batch.n : task[i].pc = "done"
    /\ \E h, i, j \in 1..batch.n :
        /\ h < i /\ i < j
        /\ ~task[i].latest /\ task[i].inst
        /\ task[i].sent = <<>>
        /\ task[i].result.value = "False"
        /\ task[h].result.value = "True"
        /\ task[j].result.value = "True"
        /\ "uninstall" \in {task[j].sent[k] : k \in 1..Len(task[j].sent)}

\* C26: during the pre-fetch of a parallel upgrade no more marketplace
\* lookups are in flight than the concurrency limit of the command.
C26_PrefetchBounded == Cardinality(LookupsInFlight) <= max_concurrency

\* the coroutines queued on the semaphore
Queued == {semaphore.waiters[k] : k \in 1..Len(semaphore.waiters)}

\* C27: on one async console client the requests made through _request
\* and not yet answered never outnumber max_concurrency, and each of them
\* holds exactly one slot of the semaphore for as long as it is in flight:
\* a coroutine between two of its requests holds none, so that when an
\* upgrade goes on from one request to the next while others are queued,
\* the slot passes to the head of the queue and the coroutine queues again.
C27_SlotPerRequest ==
    /\ [](batch.kind \notin SyncKinds /\ semaphore.made =>
            /\ Cardinality(InFlight) <= max_concurrency
            /\ semaphore.value = max_concurrency - Cardinality(InFlight)
            /\ Queued = Waiting
            /\ Waiting # {} => semaphore.value = 0)
    /\ [][\A i \in 1..batch.n :
            (/\ batch.kind = "upgrade"
             /\ batch' = batch
             /\ task[i].pc = "in_flight"
             /\ Len(task'[i].sent) > Len(task[i].sent)
             /\ semaphore.waiters # <<>>)
            => /\ task'[i].pc = "waiting"
               /\ task'[Head(semaphore.waiters)].pc = "in_flight"
               /\ semaphore'.waiters = Append(Tail(semaphore.waiters), i)]_vars

\* an upgrade whose uninstall was answered queues for its install behind
\* a full gate
C27_Witness ==
    /\ batch.kind = "upgrade"
    /\ Cardinality(InFlight) = max_concurrency
    /\ \E i \in Waiting :
        /\ task[i].sent = <<"uninstall", "install">>
        /\ task[i].resp = <<"ok">>
    /\ \E j \in InFlight : task[j].sent = <<"uninstall">>

\* C28: the list a parallel batch returns has one entry per input item and
\* its i-th entry is the tuple the coroutine of the i-th item returned,
\* carrying the key of the i-th item, in whatever order the coroutines
\* ended.
C28_ResultsInInputOrder ==
    batch.phase = "returned" =>
        /\ Len(results) = batch.n
        /\ \A i \in 1..batch.n :
            /\ results[i].key = i
            /\ results[i] = task[i].result

\* a batch has returned whose last item ended first and whose first item
\* ended last, with different outcomes
C28_Witness ==
    /\ batch.phase = "returned"
    /\ batch.n >= 3
    /\ Len(ended.order) = batch.n
    /\ ended.order[1] = batch.n
    /\ ended.order[batch.n] = 1
    /\ results[1].error # None
    /\ results[batch.n].error = None

\* what a parse of the lines ls alone yields, from line k on with the
\* pending type et and data dl: the events, whether it failed, and the
\* values pending at the end
RECURSIVE Alone(_, _, _, _)
Alone(ls, k, et, dl) ==
    IF k > Len(ls) THEN [out |-> <<>>, failed |-> FALSE, et |-> et, dl |-> dl]
    ELSE LET line == Strip(ls[k])
             f == ParseEventLine(line)
             name == TextOf(f.field)
             r == CreateEvent(EffectiveType(et), Join(dl, NL))
         IN  IF line # <<>>
             THEN Alone(ls, k + 1,
                        IF name = "event" THEN f.value ELSE et,
                        IF name = "data" THEN Append(dl, f.value) ELSE dl)
             ELSE IF dl = <<>> THEN Alone(ls, k + 1, et, dl)
             ELSE IF ~r.ok
             THEN [out |-> <<>>, failed |-> TRUE, et |-> et, dl |-> dl]
             ELSE LET rest == Alone(ls, k + 1, <<>>, <<>>)
                  IN  [rest EXCEPT !.out = <<r>> \o @]

\* the events a generator has yielded are those its own lines give
OwnLinesOnly(g) ==
    LET a == Alone(g.lines, 1, <<>>, <<>>)
        last == CreateEvent(EffectiveType(a.et), Join(a.dl, NL))
        flushed == g.pc \in {"flushed", "done"} /\ a.dl # <<>> /\ last.ok
    IN  [k \in 1..Len(g.emitted) |-> g.emitted[k].ev]
            = IF flushed THEN Append(a.out, last) ELSE a.out

\* the events of the running generator whose id was written to the parser
WrittenIds == {k \in WithId : emitted[k].at <= Len(lines)}
LastWritten == IdOf(CHOOSE k \in WrittenIds : \A h \in WrittenIds : h <= k)

\* the running generator has just yielded one more event
Completes ==
    /\ cur' = cur
    /\ Len(emitted') = Len(emitted) + 1

LastCompletion == IF emitted = <<>> THEN 0 ELSE emitted[Len(emitted)].at

\* the lines lo+1..hi that carry the field `name`
FieldLines(name, lo, hi) ==
    {i \in (lo + 1)..hi : ~IsBlank(i) /\ TextOf(FieldAt(i).field) = name}

\* the value the last of them gives, empty when there is none
Pending(name, lo, hi) ==
    IF FieldLines(name, lo, hi) = {} THEN <<>>
    ELSE FieldAt(CHOOSE i \in FieldLines(name, lo, hi) :
                    \A h \in FieldLines(name, lo, hi) : h <= i).value

\* the position before the first line read for the latest event
FrameStart ==
    IF Len(emitted) = 1 THEN 0 ELSE emitted[Len(emitted) - 1].at

\* C30: an empty line read while no data line is accumulated emits nothing
\* and leaves the pending event type and id as they are; the pending type
\* and id are those of the last event: and id: line read since the latest
\* completed event, empty lines in between or not, and the next event that
\* has data is built with that type and writes that id to last_event_id.
C30_BlankKeepsPending ==
    /\ [][(/\ pc = "reading"
           /\ data_lines = <<>>
           /\ Len(lines') = Len(lines) + 1
           /\ Strip(lines'[Len(lines')]) = <<>>) =>
            /\ emitted' = emitted
            /\ pc' = "reading"
            /\ event_type' = event_type
            /\ event_id' = event_id
            /\ last_event_id' = last_event_id]_vars
    /\ [](pc = "reading" =>
            /\ event_type = Pending("event", LastCompletion, Len(lines))
            /\ event_id = Pending("id", LastCompletion, Len(lines)))
    /\ [](pc = "yielded" =>
            LET hi == LastCompletion - 1
                type == Pending("event", FrameStart, hi)
                id == Pending("id", FrameStart, hi)
            IN  /\ emitted[Len(emitted)].ev =
                        CreateEvent(EffectiveType(type), Join(data_lines, NL))
                /\ id # <<>> => last_event_id = id)

\* an id: line, then an empty line, then data: the event the second empty
\* line completes carries the id the first one left pending
C30_Witness ==
    /\ pc = "yielded"
    /\ Len(emitted) = 1
    /\ Len(lines) = 4
    /\ IsIdLine(1)
    /\ IsBlank(2)
    /\ IsData(3)
    /\ IsBlank(4)
    /\ last_event_id = FieldAt(1).value
    /\ last_event_id # <<>>

====
